---- MODULE Spec2Model ----
(***************************************************************************)
(* Model of the CHEDS analytics dashboard (cheds_analytics_dashboard.py): *)
(* the session state (Registry `datasets`, `data_loaded`,                  *)
(* `auto_load_attempted`), the three load paths (startup auto-load,        *)
(* Reload button, Upload widget) and the Streamlit script-run cycle.       *)
(*                                                                         *)
(* Strings are modelled as sequences of tokens: a string is cut at every   *)
(* '_' and '.' character, the delimiters being tokens of their own, so     *)
(* "CHEDS-LT-01_x.csv" is <<"CHEDS-LT-01", "_", "x", ".", "csv">>.         *)
(* str.split('_') and Path.stem then act on tokens exactly as they act on  *)
(* characters.                                                             *)
(***************************************************************************)
EXTENDS Integers, Sequences, FiniteSets, TLC

VARIABLES
    datasets,             \* st.session_state.datasets : product_id -> entry
    data_loaded,          \* st.session_state.data_loaded
    auto_load_attempted,  \* st.session_state.auto_load_attempted
    PRODUCT_CATEGORIES,   \* module-level catalog, rebuilt by every script run
    uploaded_files,       \* files held by the st.file_uploader widget
    rerun_requested,      \* st.rerun() was called: the script runs again at once
    fs,                   \* the csv_files directory on disk (environment)
    last,                 \* what the last step did (observation only)
    rendered              \* what the last step put on the page (output only)

vars == <<datasets, data_loaded, auto_load_attempted, PRODUCT_CATEGORIES,
          uploaded_files, rerun_requested, fs, last, rendered>>

----------------------------------------------------------------------------
(* Bounds *)

\* Largest number of files the upload widget holds at once.
MaxBatch == 2

\* Largest numbers of rows and columns of the generated tables.
MaxRows == 2
MaxCols == 2

----------------------------------------------------------------------------
(* Strings as token sequences *)

\* s.split(sep)[0]: the tokens before the first occurrence of sep.
RECURSIVE SplitFirst(_, _)
SplitFirst(s, sep) ==
    IF s = << >> THEN << >>
    ELSE IF Head(s) = sep THEN << >>
    ELSE <<Head(s)>> \o SplitFirst(Tail(s), sep)

\* name.rfind('.'), 1-based; 0 when there is no '.'.
RFindDot(name) ==
    LET hits == {i \in 1..Len(name) : name[i] = "."}
    IN  IF hits = {} THEN 0 ELSE CHOOSE i \in hits : \A j \in hits : j <= i

\* pathlib PurePath.stem: the name without its last suffix; a leading or a
\* trailing dot starts no suffix.
Stem(name) ==
    LET i == RFindDot(name)
    IN  IF 1 < i /\ i < Len(name) THEN SubSeq(name, 1, i - 1) ELSE name

\* pathlib glob("*.csv"): the name ends with ".csv".
MatchesCsvGlob(name) ==
    /\ Len(name) >= 2
    /\ name[Len(name) - 1] = "."
    /\ name[Len(name)] = "csv"

----------------------------------------------------------------------------
(* pd.read_csv *)

ParseError == [error |-> "ParseError"]

NaN == "NaN"

Max(a, b) == IF a >= b THEN a ELSE b

\* A short record is filled up with missing values.
PadRow(row, width) ==
    [i \in 1..width |-> IF i <= Len(row) THEN row[i] ELSE NaN]

DropLeading(row, k) == SubSeq(row, k + 1, Len(row))

IsBlankLine(line) == Len(line) = 0

\* pd.read_csv(file, encoding='utf-8-sig') on a file given as its lines, each
\* line the sequence of its fields.  Blank lines are skipped; no line at all
\* is an EmptyDataError; the first line names the columns; a record after the
\* first that has more fields than the table is wide is a ParserError; a
\* first record wider than the header makes its leading fields the index.
read_csv(content) ==
    LET lines == SelectSeq(content, LAMBDA l : ~IsBlankLine(l))
    IN  IF lines = << >> THEN ParseError
        ELSE
          LET header == Head(lines)
              recs   == Tail(lines)
              width  == IF recs = << >> THEN Len(header)
                        ELSE Max(Len(header), Len(recs[1]))
              lead   == width - Len(header)
          IN  IF \E i \in 1..Len(recs) : Len(recs[i]) > width
              THEN ParseError
              ELSE [columns |-> header,
                    rows    |-> [i \in 1..Len(recs) |->
                                   DropLeading(PadRow(recs[i], width), lead)]]

Parses(file) == read_csv(file.content) # ParseError

----------------------------------------------------------------------------
(* The files of the model *)

T1 == << <<"Inst", "Val">>, <<"U1", "10">>, << >>, <<"U2", "x">> >>
T2 == << <<"Inst", "Val", "Yr">>, <<"U1", "5">> >>
T0 == << <<"Inst">> >>
Malformed == << <<"Inst", "Val">>, <<"U1", "1">>, <<"U2", "2", "3">> >>

File_LT01_x == [name |-> <<"CHEDS-LT-01", "_", "x", ".", "csv">>, content |-> T1]
File_LT01_y == [name |-> <<"CHEDS-LT-01", "_", "y", ".", "csv">>, content |-> T2]
File_HR21   == [name |-> <<"CHEDS-HR-21", ".", "csv">>,           content |-> T0]
File_FIN25  == [name |-> <<"CHEDS-FIN-25", "_", "z", ".", "csv">>, content |-> Malformed]
File_Readme == [name |-> <<"readme", ".", "txt">>,                content |-> << >>]

\* Files that can lie in the directory.
DirFiles == {File_LT01_x, File_LT01_y, File_HR21, File_FIN25, File_Readme}

\* Files the uploader accepts (type=['csv']).
UploadFiles == {f \in DirFiles : MatchesCsvGlob(f.name)}

RECURSIVE SeqsUpTo(_, _)
SeqsUpTo(S, n) ==
    IF n = 0 THEN {<< >>}
    ELSE LET shorter == SeqsUpTo(S, n - 1)
         IN  shorter \cup {Append(q, x) : q \in shorter, x \in S}

\* The orders in which a directory listing can return the set S.
RECURSIVE Orderings(_)
Orderings(S) ==
    IF S = {} THEN {<< >>}
    ELSE UNION {{<<x>> \o q : q \in Orderings(S \ {x})} : x \in S}

----------------------------------------------------------------------------
(* The catalog *)

Id(token) == <<token>>

LearningAndTeaching ==
    <<Id("CHEDS-LT-01"), Id("CHEDS-LT-02"), Id("CHEDS-LT-03"),
      Id("CHEDS-LT-04"), Id("CHEDS-LT-05"), Id("CHEDS-LT-06"),
      Id("CHEDS-LT-07"), Id("CHEDS-LT-08"), Id("CHEDS-LT-09"),
      Id("CHEDS-LT-10"), Id("CHEDS-LT-11"), Id("CHEDS-LT-12"),
      Id("CHEDS-LT-13"), Id("CHEDS-LT-14"), Id("CHEDS-LT-15"),
      Id("CHEDS-LT-16"), Id("CHEDS-LT-17"), Id("CHEDS-LT-18"),
      Id("CHEDS-LT-19"), Id("CHEDS-LT-20")>>

HumanResourceManagement ==
    <<Id("CHEDS-HR-21"), Id("CHEDS-HR-22"), Id("CHEDS-HR-23"),
      Id("CHEDS-HR-24")>>

FinancialManagement == <<Id("CHEDS-FIN-25")>>

Research ==
    <<Id("CHEDS-RES-26"), Id("CHEDS-RES-27"), Id("CHEDS-RES-28"),
      Id("CHEDS-RES-29"), Id("CHEDS-RES-30"), Id("CHEDS-RES-31"),
      Id("CHEDS-RES-32")>>

FacilitiesAndEstateManagement == <<Id("CHEDS-FAC-33"), Id("CHEDS-FAC-34")>>

\* The Supporting Services list with CHEDS-ADV-37 typed for CHEDS-SUP-40.
SupportingServicesMistyped ==
    <<Id("CHEDS-SUP-35"), Id("CHEDS-SUP-36"), Id("CHEDS-ADV-37"),
      Id("CHEDS-SUP-41")>>

SupportingServices ==
    <<Id("CHEDS-SUP-35"), Id("CHEDS-SUP-36"), Id("CHEDS-SUP-40"),
      Id("CHEDS-SUP-41")>>

AdvancementManagement ==
    <<Id("CHEDS-ADV-37"), Id("CHEDS-ADV-38"), Id("CHEDS-ADV-39")>>

\* The dict literal PRODUCT_CATEGORIES is bound to.
CatalogLiteral ==
    [d \in {"Learning and Teaching", "Human Resource Management",
            "Financial Management", "Research",
            "Facilities & Estate Management", "Supporting Services",
            "Advancement Management"} |->
        CASE d = "Learning and Teaching" -> LearningAndTeaching
          [] d = "Human Resource Management" -> HumanResourceManagement
          [] d = "Financial Management" -> FinancialManagement
          [] d = "Research" -> Research
          [] d = "Facilities & Estate Management" ->
               FacilitiesAndEstateManagement
          [] d = "Supporting Services" -> SupportingServices
          [] d = "Advancement Management" -> AdvancementManagement]

----------------------------------------------------------------------------
(* Session state and the load paths *)

EmptyDict == [k \in {} |-> {}]

\* d[k] = v on a Python dict.
Put(d, k, v) == (k :> v) @@ d

Session(ds, loaded) == [datasets |-> ds, data_loaded |-> loaded]

\* csv_dir.glob("*.csv") when one of the candidate directories exists.
CsvFiles(fsys) ==
    IF fsys.exists THEN {f \in fsys.files : MatchesCsvGlob(f.name)} ELSE {}

\* file_path.stem.split('_')[0] at startup.
StartupProductId(name) == SplitFirst(Stem(name), "_")

\* file_path.stem.split('_')[0] in auto_load_csv_files.
ReloadProductId(name) == SplitFirst(Stem(name), "_")

\* file.name.split('_')[0] in the upload branch.
UploadProductId(name) == SplitFirst(name, "_")

\* The dict stored per product at startup.
StartupEntry(df, name) ==
    [data |-> df, filename |-> name,
     rows |-> Len(df.rows), columns |-> Len(df.columns)]

\* The dict stored per product by auto_load_csv_files.
ReloadEntry(df, name) ==
    [data |-> df, filename |-> name,
     rows |-> Len(df.rows), columns |-> Len(df.columns)]

\* UploadEntry with the two cached counts exchanged.
UploadEntrySwapped(df, name) ==
    [data |-> df, filename |-> name,
     rows |-> Len(df.columns), columns |-> Len(df.rows)]

\* The dict stored per product by the upload branch.
UploadEntry(df, name) ==
    [data |-> df, filename |-> name,
     rows |-> Len(df.rows), columns |-> Len(df.columns)]

\* The startup loop: a file that fails to parse is skipped (try/except: pass).
RECURSIVE StartupLoop(_, _)
StartupLoop(files, acc) ==
    IF files = << >> THEN acc
    ELSE LET f  == Head(files)
             df == read_csv(f.content)
         IN  IF df = ParseError
             THEN StartupLoop(Tail(files), acc)
             ELSE StartupLoop(Tail(files),
                              Put(acc, StartupProductId(f.name),
                                  StartupEntry(df, f.name)))

\* The auto-load block without the test of data_loaded.
StartupAutoLoadAlways(session, fsys, order) ==
    IF fsys.exists /\ order # << >>
    THEN LET built == StartupLoop(order, EmptyDict)
         IN  IF DOMAIN built # {}
             THEN Session(built, TRUE)
             ELSE session
    ELSE session

\* The top-level auto-load block, entered when auto_load_attempted is false.
StartupAutoLoad(session, fsys, order) ==
    IF fsys.exists /\ order # << >> /\ ~session.data_loaded
    THEN LET built == StartupLoop(order, EmptyDict)
         IN  IF DOMAIN built # {}
             THEN Session(built, TRUE)
             ELSE session
    ELSE session

\* The loop of auto_load_csv_files: no try/except, the first file that fails
\* to parse raises out of the function and the local dict is lost.
RECURSIVE ReloadLoop(_, _)
ReloadLoop(files, acc) ==
    IF files = << >> THEN acc
    ELSE LET f  == Head(files)
             df == read_csv(f.content)
         IN  IF df = ParseError
             THEN ParseError
             ELSE ReloadLoop(Tail(files),
                             Put(acc, ReloadProductId(f.name),
                                 ReloadEntry(df, f.name)))

\* auto_load_csv_files() emptying the session's dict and filling it file by
\* file, so that the entries read before a failing file stay.
AutoLoadCsvFilesInPlace(session, fsys, order) ==
    IF fsys.exists /\ order # << >>
    THEN LET n == CHOOSE m \in 0..Len(order) :
                    /\ \A i \in 1..m : Parses(order[i])
                    /\ m = Len(order) \/ ~Parses(order[m + 1])
             built == ReloadLoop(SubSeq(order, 1, n), EmptyDict)
         IN  IF n < Len(order)
             THEN [session |-> Session(built, session.data_loaded),
                   ret |-> "raise"]
             ELSE [session |-> Session(built, TRUE), ret |-> "True"]
    ELSE [session |-> session, ret |-> "False"]

\* auto_load_csv_files() filling the session's dict instead of a fresh one.
AutoLoadCsvFilesKeep(session, fsys, order) ==
    IF fsys.exists /\ order # << >>
    THEN LET built == ReloadLoop(order, session.datasets)
         IN  IF built = ParseError
             THEN [session |-> session, ret |-> "raise"]
             ELSE [session |-> Session(built, TRUE), ret |-> "True"]
    ELSE [session |-> session, ret |-> "False"]

\* auto_load_csv_files(): the session afterwards and the outcome
\* ("True", "False" or "raise").
AutoLoadCsvFiles(session, fsys, order) ==
    IF fsys.exists /\ order # << >>
    THEN LET built == ReloadLoop(order, EmptyDict)
         IN  IF built = ParseError
             THEN [session |-> session, ret |-> "raise"]
             ELSE [session |-> Session(built, TRUE), ret |-> "True"]
    ELSE [session |-> session, ret |-> "False"]

\* The upload loop writes into st.session_state.datasets file by file; a
\* file that fails to parse raises and leaves what was written before it.
RECURSIVE UploadLoop(_, _)
UploadLoop(files, ds) ==
    IF files = << >> THEN [datasets |-> ds, raised |-> FALSE]
    ELSE LET f  == Head(files)
             df == read_csv(f.content)
         IN  IF df = ParseError
             THEN [datasets |-> ds, raised |-> TRUE]
             ELSE UploadLoop(Tail(files),
                             Put(ds, UploadProductId(f.name),
                                 UploadEntry(df, f.name)))

\* The upload branch with data_loaded set before the loop instead of after.
UploadBranchFlagFirst(session, files) ==
    IF files = << >>
    THEN [session |-> session, outcome |-> "none"]
    ELSE LET r == UploadLoop(files, session.datasets)
         IN  [session |-> Session(r.datasets, TRUE),
              outcome |-> IF r.raised THEN "raise" ELSE "ok"]

\* `if uploaded_files:` ... in main(): the session afterwards and the outcome
\* ("none" when the widget is empty, "ok", or "raise").
UploadBranch(session, files) ==
    IF files = << >>
    THEN [session |-> session, outcome |-> "none"]
    ELSE LET r == UploadLoop(files, session.datasets)
         IN  IF r.raised
             THEN [session |-> Session(r.datasets, session.data_loaded),
                   outcome |-> "raise"]
             ELSE [session |-> Session(r.datasets, TRUE), outcome |-> "ok"]

\* main(): the sidebar (Reload button, upload widget) and then the views.
\* A successful reload calls st.rerun(), which ends the run on the spot; an
\* exception ends it too.  The views work on copies and write nothing to the
\* session.
Main(session, clicked, files, fsys, order) ==
    LET r == IF clicked THEN AutoLoadCsvFiles(session, fsys, order)
             ELSE [session |-> session, ret |-> "none"]
    IN  IF r.ret = "True"
        THEN [session |-> r.session, reload |-> "True", upload |-> "none",
              views |-> FALSE, rerun |-> TRUE]
        ELSE IF r.ret = "raise"
        THEN [session |-> r.session, reload |-> "raise", upload |-> "none",
              views |-> FALSE, rerun |-> FALSE]
        ELSE LET u == UploadBranch(r.session, files)
             IN  [session |-> u.session, reload |-> r.ret,
                  upload |-> u.outcome, views |-> u.outcome # "raise",
                  rerun |-> FALSE]

----------------------------------------------------------------------------
(* The sidebar status and the overview *)

\* Python's true division and the numbers it yields, kept exact as num/den.
Frac(n, d) == [num |-> n, den |-> d]

Times(f, k) == [num |-> f.num * k, den |-> f.den]

RECURSIVE SumSeq(_)
SumSeq(q) == IF q = << >> THEN 0 ELSE Head(q) + SumSeq(Tail(q))

\* sum(ds[field] for ds in datasets.values())
RECURSIVE SumValues(_, _, _)
SumValues(ds, keys, field) ==
    IF keys = {} THEN 0
    ELSE LET k == CHOOSE x \in keys : TRUE
         IN  ds[k][field] + SumValues(ds, keys \ {k}, field)

\* The "Status" block of the sidebar, shown when data_loaded.
SidebarStatus(session) ==
    IF session.data_loaded
    THEN [shown |-> TRUE,
          products |-> Cardinality(DOMAIN session.datasets),
          records |-> SumValues(session.datasets, DOMAIN session.datasets,
                                "rows")]
    ELSE [shown |-> FALSE]

\* [p for p in products if p in st.session_state.datasets]
LoadedProducts(ds, products) ==
    SelectSeq(products, LAMBDA p : p \in DOMAIN ds)

\* The coverage taken against the 41 products of the whole catalog.
CoveragePctOfAll(loaded_products, products) ==
    IF products # << >>
    THEN Times(Frac(Len(loaded_products), 41), 100)
    ELSE Frac(0, 1)

\* (len(loaded_products) / len(products) * 100) if products else 0
CoveragePct(loaded_products, products) ==
    IF products # << >>
    THEN Times(Frac(Len(loaded_products), Len(products)), 100)
    ELSE Frac(0, 1)

\* domain_data with 'Products' counting the whole Registry.
DomainRowCountsRegistry(ds, domain, products) ==
    LET loaded_products == LoadedProducts(ds, products)
        total_records ==
            SumSeq([i \in 1..Len(loaded_products) |->
                      ds[loaded_products[i]].rows])
        avg_cols ==
            IF loaded_products # << >>
            THEN Frac(SumSeq([i \in 1..Len(loaded_products) |->
                                ds[loaded_products[i]].columns]),
                      Len(loaded_products))
            ELSE Frac(0, 1)
    IN  [Domain |-> domain,
         Products |-> Cardinality(DOMAIN ds),
         TotalProducts |-> Len(products),
         Records |-> total_records,
         AvgColumns |-> avg_cols,
         CoveragePct |-> CoveragePct(loaded_products, products)]

\* domain_data with 'Avg Columns' divided by the catalogued products.
DomainRowAvgOverCatalog(ds, domain, products) ==
    LET loaded_products == LoadedProducts(ds, products)
        total_records ==
            SumSeq([i \in 1..Len(loaded_products) |->
                      ds[loaded_products[i]].rows])
        avg_cols ==
            IF loaded_products # << >>
            THEN Frac(SumSeq([i \in 1..Len(loaded_products) |->
                                ds[loaded_products[i]].columns]),
                      Len(products))
            ELSE Frac(0, 1)
    IN  [Domain |-> domain,
         Products |-> Len(loaded_products),
         TotalProducts |-> Len(products),
         Records |-> total_records,
         AvgColumns |-> avg_cols,
         CoveragePct |-> CoveragePct(loaded_products, products)]

\* One dict of domain_data.
DomainRow(ds, domain, products) ==
    LET loaded_products == LoadedProducts(ds, products)
        total_records ==
            SumSeq([i \in 1..Len(loaded_products) |->
                      ds[loaded_products[i]].rows])
        avg_cols ==
            IF loaded_products # << >>
            THEN Frac(SumSeq([i \in 1..Len(loaded_products) |->
                                ds[loaded_products[i]].columns]),
                      Len(loaded_products))
            ELSE Frac(0, 1)
    IN  [Domain |-> domain,
         Products |-> Len(loaded_products),
         TotalProducts |-> Len(products),
         Records |-> total_records,
         AvgColumns |-> avg_cols,
         CoveragePct |-> CoveragePct(loaded_products, products)]

\* display_overview() with the totals taken over the catalogued products only.
display_overview_catalogued(session, catalog) ==
    IF ~session.data_loaded
    THEN [shown |-> FALSE]
    ELSE LET ds == session.datasets
             known == {k \in DOMAIN ds :
                         \E d \in DOMAIN catalog :
                           \E i \in 1..Len(catalog[d]) : catalog[d][i] = k}
             total_products == Cardinality(known)
             total_rows == SumValues(ds, known, "rows")
             total_columns == SumValues(ds, known, "columns")
         IN  [shown |-> TRUE,
              total_products |-> total_products,
              total_rows |-> total_rows,
              total_columns |-> total_columns,
              avg_records_per_product |->
                  IF total_products > 0 THEN total_rows \div total_products
                  ELSE 0,
              domain_data |-> [d \in DOMAIN catalog |->
                                 DomainRow(ds, d, catalog[d])]]

\* display_overview() with the average rounded up.
display_overview_rounded_up(session, catalog) ==
    IF ~session.data_loaded
    THEN [shown |-> FALSE]
    ELSE LET ds == session.datasets
             total_products == Cardinality(DOMAIN ds)
             total_rows == SumValues(ds, DOMAIN ds, "rows")
             total_columns == SumValues(ds, DOMAIN ds, "columns")
         IN  [shown |-> TRUE,
              total_products |-> total_products,
              total_rows |-> total_rows,
              total_columns |-> total_columns,
              avg_records_per_product |->
                  IF total_products > 0
                  THEN (total_rows + total_products - 1) \div total_products
                  ELSE 0,
              domain_data |-> [d \in DOMAIN catalog |->
                                 DomainRow(ds, d, catalog[d])]]

\* display_overview(): the summary metrics and domain_data, or nothing when
\* data_loaded is false.
display_overview(session, catalog) ==
    IF ~session.data_loaded
    THEN [shown |-> FALSE]
    ELSE LET ds == session.datasets
             total_products == Cardinality(DOMAIN ds)
             total_rows == SumValues(ds, DOMAIN ds, "rows")
             total_columns == SumValues(ds, DOMAIN ds, "columns")
         IN  [shown |-> TRUE,
              total_products |-> total_products,
              total_rows |-> total_rows,
              total_columns |-> total_columns,
              avg_records_per_product |->
                  IF total_products > 0 THEN total_rows \div total_products
                  ELSE 0,
              domain_data |-> [d \in DOMAIN catalog |->
                                 DomainRow(ds, d, catalog[d])]]

\* No display function of a domain tab has been followed.
NoTab == [fn |-> "none", shown |-> FALSE, raised |-> "none"]

NothingRendered ==
    [sidebar |-> [shown |-> FALSE], overview |-> [shown |-> FALSE],
     tab |-> NoTab]

\* What a script run that reaches the end of the sidebar puts on the page:
\* the status block and display_overview(), which main() calls first in
\* either branch.
Page(session, catalog) ==
    [sidebar |-> SidebarStatus(session),
     overview |-> display_overview(session, catalog),
     tab |-> NoTab]

----------------------------------------------------------------------------
(* Columns, numbers and aggregations of a table *)

\* name in df.columns
HasColumn(df, name) == \E j \in 1..Len(df.columns) : df.columns[j] = name

\* df[name]: the cells of the column, top to bottom.
Column(df, name) ==
    LET j == CHOOSE c \in 1..Len(df.columns) : df.columns[c] = name
    IN  [i \in 1..Len(df.rows) |-> df.rows[i][j]]

\* The numerals of the model and the numbers they denote.
Numerals == <<"0", "1", "2", "3", "4", "5", "6", "7", "8", "9", "10">>

\* The same numbers written the way to_csv writes a float, and written with
\* a leading zero.
FloatNumerals ==
    <<"0.0", "1.0", "2.0", "3.0", "4.0", "5.0", "6.0", "7.0", "8.0", "9.0",
      "10.0">>

PaddedNumerals ==
    <<"00", "01", "02", "03", "04", "05", "06", "07", "08", "09", "010">>

Spellings == {Numerals, FloatNumerals, PaddedNumerals}

IsNumeral(cell) == \E sp \in Spellings : \E i \in 1..Len(sp) : sp[i] = cell

NumeralValue(cell) ==
    (CHOOSE i \in 1..Len(Numerals) : \E sp \in Spellings : sp[i] = cell) - 1

\* A field read_csv takes for a missing value.
IsMissing(cell) == cell = NaN \/ cell = ""

\* A number, or the absence of one.
Present(v) == [present |-> TRUE, value |-> v]

Absent == [present |-> FALSE, value |-> 0]

\* pd.to_numeric(series, errors='coerce'): a cell that is no number is absent.
to_numeric_coerce(cells) ==
    [i \in 1..Len(cells) |->
        IF IsNumeral(cells[i]) THEN Present(NumeralValue(cells[i]))
        ELSE Absent]

\* .fillna(0)
fillna0(series) ==
    [i \in 1..Len(series) |->
        IF series[i].present THEN series[i] ELSE Present(0)]

\* Series.sum() of a numeric series: absent values are skipped.
RECURSIVE NumSum(_)
NumSum(series) ==
    IF series = << >> THEN 0
    ELSE (IF Head(series).present THEN Head(series).value ELSE 0)
           + NumSum(Tail(series))

\* Series.count(): the number of present values.
NumCount(series) == Len(SelectSeq(series, LAMBDA x : x.present))

\* A mean that divides by the number of rows.
MeanOverRows(series) == Frac(NumSum(series), Len(series))

\* Series.mean() of a numeric series: the sum of the present values over
\* their number; 0/0, which is nan, when there is none.
NumMean(series) == Frac(NumSum(series), NumCount(series))

\* The dtype read_csv gives a column: numeric when every field is a number
\* or missing, object (the fields as strings) otherwise and when the table
\* has no row.
IsNumericColumn(cells) ==
    /\ cells # << >>
    /\ \A i \in 1..Len(cells) : IsNumeral(cells[i]) \/ IsMissing(cells[i])

\* Series.sum() as the column was read: the sum of a numeric column, 0 for a
\* column without rows, the concatenation of the strings of an object
\* column, and a TypeError when strings stand next to missing values.
SeriesSum(cells) ==
    IF cells = << >> \/ IsNumericColumn(cells)
    THEN [kind |-> "number", value |-> NumSum(to_numeric_coerce(cells))]
    ELSE IF \E i \in 1..Len(cells) : IsMissing(cells[i])
    THEN [kind |-> "TypeError", value |-> 0]
    ELSE [kind |-> "str", value |-> 0]

\* The rows of df whose cell in column g is key.
RowsOfGroup(df, g, key) ==
    LET gs == Column(df, g)
    IN  SelectSeq([i \in 1..Len(df.rows) |-> i], LAMBDA i : gs[i] = key)

\* The keys of df.groupby(g): the values of the column, missing ones dropped.
GroupKeys(df, g) ==
    {c \in {Column(df, g)[i] : i \in 1..Len(df.rows)} : ~IsMissing(c)}

\* A grouping that keeps the first value of each group instead of the sum.
GroupByFirst(df, g, values) ==
    {<<key, values[RowsOfGroup(df, g, key)[1]].value>> :
        key \in GroupKeys(df, g)}

\* df.groupby(g)[v].sum() over numeric values: one (key, sum) pair per key.
GroupBySum(df, g, values) ==
    {<<key, NumSum([n \in 1..Len(RowsOfGroup(df, g, key)) |->
                      values[RowsOfGroup(df, g, key)[n]]])>> :
        key \in GroupKeys(df, g)}

\* The (value, count) pairs of Series.value_counts(): one pair per distinct
\* value, missing values dropped.
CountPairs(cells) ==
    {<<v, Cardinality({i \in 1..Len(cells) : cells[i] = v})>> :
        v \in {c \in {cells[i] : i \in 1..Len(cells)} : ~IsMissing(c)}}

\* sort_values(ascending=False) with the default, unstable sort kind: every
\* order of the pairs in which the numbers do not increase; pairs of equal
\* number may come out in any order.
RECURSIVE DescOrders(_)
DescOrders(pairs) ==
    IF pairs = {} THEN {<< >>}
    ELSE UNION {{<<p>> \o rest : rest \in DescOrders(pairs \ {p})} :
                  p \in {q \in pairs : \A r \in pairs : r[2] <= q[2]}}

\* A head that keeps every entry.
HeadAll(q, n) == q

\* .head(n)
HeadN(q, n) == SubSeq(q, 1, IF Len(q) < n THEN Len(q) ELSE n)

\* Series.value_counts(): the results the sort may produce.
value_counts(cells) == DescOrders(CountPairs(cells))

\* A chart or summary a view left out.
Omitted == [shown |-> FALSE, data |-> << >>]

Shown(d) == [shown |-> TRUE, data |-> d]

\* A display function ended by an exception.
Raised(fn, exc) == [fn |-> fn, shown |-> TRUE, raised |-> exc]

----------------------------------------------------------------------------
(* Tables as pandas holds them, and DataFrame.to_csv *)

\* The value of a cell: a number, a text or a missing value.
Num(n) == [kind |-> "number", n |-> n, s |-> ""]

Str(s) == [kind |-> "str", n |-> 0, s |-> s]

Missing == [kind |-> "nan", n |-> 0, s |-> ""]

\* The dtype read_csv infers for a column: int64 when every field is an
\* integer, float64 when every field is a number and some are missing or
\* written as floats, object otherwise.
Dtype(cells) ==
    IF ~IsNumericColumn(cells) THEN "object"
    ELSE IF \E i \in 1..Len(cells) :
               \/ IsMissing(cells[i])
               \/ \E n \in 1..Len(FloatNumerals) : FloatNumerals[n] = cells[i]
    THEN "float64"
    ELSE "int64"

\* The values of a column under its dtype.
Values(cells) ==
    [i \in 1..Len(cells) |->
        IF IsMissing(cells[i]) THEN Missing
        ELSE IF Dtype(cells) = "object" THEN Str(cells[i])
        ELSE Num(NumeralValue(cells[i]))]

\* The DataFrame read_csv returns: per column its name, its dtype and its
\* values.
Frame(df) ==
    [columns |-> df.columns,
     dtypes |-> [j \in 1..Len(df.columns) |->
                   Dtype(Column(df, df.columns[j]))],
     rows |-> [i \in 1..Len(df.rows) |->
                 [j \in 1..Len(df.columns) |->
                    Values(Column(df, df.columns[j]))[i]]]]

\* The field to_csv writes for a value: a number as an integer or as a
\* float after its column's dtype, a text as it is, a missing value as the
\* empty field.
CsvField(value, dtype) ==
    IF value.kind = "nan" THEN ""
    ELSE IF value.kind = "str" THEN value.s
    ELSE IF dtype = "float64" THEN FloatNumerals[value.n + 1]
    ELSE Numerals[value.n + 1]

\* frame.to_csv(index=False): the header line, then a line per row.
to_csv(frame) ==
    <<frame.columns>> \o
    [i \in 1..Len(frame.rows) |->
        [j \in 1..Len(frame.columns) |->
            CsvField(frame.rows[i][j], frame.dtypes[j])]]

----------------------------------------------------------------------------
(* display_data_explorer *)

\* f"{product_id}: {info['filename']}"
Option(product_id, filename) == product_id \o <<":", " ">> \o filename

\* The options of the file selector.
file_options(ds) == {Option(k, ds[k].filename) : k \in DOMAIN ds}

\* The position of a column in a frame.
ColumnAt(frame, col) ==
    CHOOSE j \in 1..Len(frame.columns) : frame.columns[j] = col

\* frame[col].dropna().unique()
Unique(frame, col) ==
    {frame.rows[i][ColumnAt(frame, col)] : i \in 1..Len(frame.rows)}
        \ {Missing}

\* frame[frame[col].isin(values)]
Isin(frame, col, values) ==
    [frame EXCEPT !.rows =
        SelectSeq(frame.rows, LAMBDA r : r[ColumnAt(frame, col)] \in values)]

\* One filter slot: no column chosen, no value chosen, or the rows whose
\* value in the chosen column is among the chosen values.  A column of more
\* than 50 values gets a text search instead, which keeps some of the rows
\* that have a value.
FilterSlot(frame) ==
    {frame} \cup
    UNION {IF Cardinality(Unique(frame, frame.columns[j])) <= 50
           THEN {Isin(frame, frame.columns[j], values) :
                   values \in SUBSET Unique(frame, frame.columns[j]) \ {{}}}
           ELSE {Isin(frame, frame.columns[j], values) :
                   values \in SUBSET Unique(frame, frame.columns[j])} :
             j \in 1..Len(frame.columns)}

\* The frames the three filter slots, applied one after the other, can leave.
Filtered(frame) ==
    UNION {UNION {FilterSlot(f2) : f2 \in FilterSlot(f1)} :
             f1 \in FilterSlot(frame)}

\* frame[selected_columns]
SelectColumns(frame, cols) ==
    [columns |-> cols,
     dtypes |-> [n \in 1..Len(cols) |-> frame.dtypes[ColumnAt(frame, cols[n])]],
     rows |-> [i \in 1..Len(frame.rows) |->
                 [n \in 1..Len(cols) |->
                    frame.rows[i][ColumnAt(frame, cols[n])]]]]

Min(a, b) == IF a <= b THEN a ELSE b

\* st.slider(label, min_value, max_value, value) raises unless
\* min_value <= value <= max_value.
SliderRaises(min_value, max_value, value) ==
    ~(min_value <= value /\ value <= max_value)

\* What display_data_explorer can show, through the download button, when
\* the user has picked a file, columns and a row limit; the filters are any
\* the three slots allow.
display_data_explorer(session, selected_file, selected_columns, row_limit) ==
    LET fn == "display_data_explorer"
        product_id == SplitFirst(selected_file, ":")
        dataset_info == session.datasets[product_id]
        df == dataset_info.data
    IN  IF DOMAIN session.datasets = {}
        THEN {[fn |-> fn, shown |-> FALSE, raised |-> "none"]}
        ELSE IF product_id \notin DOMAIN session.datasets
        THEN {[fn |-> fn, shown |-> TRUE, raised |-> "KeyError",
               selected_file |-> selected_file, product_id |-> product_id]}
        ELSE IF SliderRaises(5, Min(100, Len(df.rows)), 20)
        THEN {[fn |-> fn, shown |-> TRUE, raised |-> "StreamlitAPIException",
               selected_file |-> selected_file, product_id |-> product_id]}
        ELSE {[fn |-> fn, shown |-> TRUE, raised |-> "none",
               selected_file |-> selected_file, product_id |-> product_id,
               filename |-> dataset_info.filename,
               total_rows |-> Len(df.rows),
               rows_after_filtering |-> Len(filtered_df.rows),
               display_df |->
                   IF selected_columns # << >>
                   THEN SelectColumns(filtered_df, selected_columns)
                   ELSE filtered_df,
               row_limit |-> row_limit,
               csv_data |->
                   to_csv(IF selected_columns # << >>
                          THEN SelectColumns(filtered_df, selected_columns)
                          ELSE filtered_df)] :
                filtered_df \in Filtered(Frame(df))}

----------------------------------------------------------------------------
(* display_learning_teaching *)

\* total_applicants and its int(): the sum of App_Applicants as read, the
\* number of rows when the column is absent.
TotalApplicants(df) ==
    IF ~HasColumn(df, "App_Applicants")
    THEN [kind |-> "number", value |-> Len(df.rows)]
    ELSE LET total == SeriesSum(Column(df, "App_Applicants"))
         IN  IF total.kind = "str" THEN [kind |-> "ValueError", value |-> 0]
             ELSE total

\* len(df) of a product of the view, 0 when it is not loaded.
RowsOf(available, id) ==
    IF id \in DOMAIN available THEN Len(available[id].data.rows) ELSE 0

\* The conversion metrics.
ConversionMetrics(applicants, enrolled, graduates, courses) ==
    IF applicants > 0 /\ enrolled > 0
    THEN [shown |-> TRUE,
          acceptance_rate |->
              IF applicants > 0 THEN Times(Frac(enrolled, applicants), 100)
              ELSE Frac(0, 1),
          graduation_rate |->
              IF enrolled > 0 THEN Times(Frac(graduates, enrolled), 100)
              ELSE Frac(0, 1),
          students_per_course |->
              IF courses > 0 THEN Frac(enrolled, courses) ELSE Frac(0, 1)]
    ELSE [shown |-> FALSE]

\* df.groupby(g)['App_Applicants'].sum() of CHEDS-LT-01.  The view gets here
\* only past int(total_applicants), so the column holds numbers.
ApplicantsBy(df, g) ==
    GroupBySum(df, g, to_numeric_coerce(Column(df, "App_Applicants")))

\* The exception of the applicants analysis, "none" when it has none: the
\* gender and nationality charts read App_Applicants without asking for it.
ApplicantsAnalysisRaises(df) ==
    IF /\ HasColumn(df, "App_Gender") \/ HasColumn(df, "App_Nationality")
       /\ ~HasColumn(df, "App_Applicants")
    THEN "KeyError" ELSE "none"

\* The charts of the applicants analysis a table can give.
ApplicantsAnalysis(df) ==
    LET has(g) == HasColumn(df, g) /\ HasColumn(df, "App_Applicants")
    IN  {[inst_data |-> i, degree_data |-> d, gender_data |-> g,
          nat_data |-> n] :
           i \in IF has("App_Institution_Name")
                 THEN {Shown(HeadN(q, 10)) :
                         q \in DescOrders(ApplicantsBy(df,
                                              "App_Institution_Name"))}
                 ELSE {Omitted},
           d \in IF has("App_Degrees")
                 THEN {Shown(ApplicantsBy(df, "App_Degrees"))}
                 ELSE {Omitted},
           g \in IF has("App_Gender")
                 THEN {Shown(ApplicantsBy(df, "App_Gender"))}
                 ELSE {Omitted},
           n \in IF has("App_Nationality")
                 THEN {Shown(HeadN(q, 10)) :
                         q \in DescOrders(ApplicantsBy(df,
                                              "App_Nationality"))}
                 ELSE {Omitted}}

NoApplicantsAnalysis ==
    [inst_data |-> Omitted, degree_data |-> Omitted, gender_data |-> Omitted,
     nat_data |-> Omitted]

\* The two value counts of the enrollment analysis a table can give.
EnrollmentAnalysis(df) ==
    LET gender_col == IF HasColumn(df, "Enroll_Gender") THEN "Enroll_Gender"
                      ELSE "Stu_Gender"
        nat_col == IF HasColumn(df, "Enroll_Nationality")
                   THEN "Enroll_Nationality" ELSE "Stu_Nationality"
    IN  {[gender_counts |-> g, nat_counts |-> n] :
           g \in IF HasColumn(df, gender_col)
                 THEN {Shown(q) : q \in value_counts(Column(df, gender_col))}
                 ELSE {Omitted},
           n \in IF HasColumn(df, nat_col)
                 THEN {Shown(HeadN(q, 10)) :
                         q \in value_counts(Column(df, nat_col))}
                 ELSE {Omitted}}

NoEnrollmentAnalysis == [gender_counts |-> Omitted, nat_counts |-> Omitted]

\* What display_learning_teaching can show, through the enrollment analysis.
display_learning_teaching(session, catalog) ==
    LET fn == "display_learning_teaching"
        products == catalog["Learning and Teaching"]
        available == [k \in {id \in DOMAIN session.datasets :
                               \E i \in 1..Len(products) : products[i] = id}
                        |-> session.datasets[k]]
        hasApp == Id("CHEDS-LT-01") \in DOMAIN available
        app == IF hasApp THEN TotalApplicants(available[Id("CHEDS-LT-01")].data)
               ELSE [kind |-> "number", value |-> 0]
        hasEnroll == Id("CHEDS-LT-03") \in DOMAIN available
    IN  IF DOMAIN available = {}
        THEN {[fn |-> fn, shown |-> FALSE, raised |-> "none"]}
        ELSE IF app.kind # "number" THEN {Raised(fn, app.kind)}
        ELSE IF hasApp /\ ApplicantsAnalysisRaises(
                              available[Id("CHEDS-LT-01")].data) # "none"
        THEN {Raised(fn, ApplicantsAnalysisRaises(
                             available[Id("CHEDS-LT-01")].data))}
        ELSE {[fn |-> fn, shown |-> TRUE, raised |-> "none",
               total_applicants |-> app.value,
               total_enrolled |-> RowsOf(available, Id("CHEDS-LT-03")),
               total_graduates |-> RowsOf(available, Id("CHEDS-LT-09")),
               total_courses |-> RowsOf(available, Id("CHEDS-LT-11")),
               total_programs |-> RowsOf(available, Id("CHEDS-LT-12")),
               conversion |->
                   ConversionMetrics(app.value,
                                     RowsOf(available, Id("CHEDS-LT-03")),
                                     RowsOf(available, Id("CHEDS-LT-09")),
                                     RowsOf(available, Id("CHEDS-LT-11"))),
               applicants |-> a, enrollment |-> e] :
                a \in IF hasApp
                      THEN ApplicantsAnalysis(available[Id("CHEDS-LT-01")].data)
                      ELSE {NoApplicantsAnalysis},
                e \in IF hasEnroll
                      THEN EnrollmentAnalysis(available[Id("CHEDS-LT-03")].data)
                      ELSE {NoEnrollmentAnalysis}}

----------------------------------------------------------------------------
(* display_human_resources *)

\* (df[col] == value).sum() if col in df.columns else 0: a numpy integer when
\* the column is there, a Python int when it is not.
CountEquals(df, col, value) ==
    IF HasColumn(df, col)
    THEN [numpy |-> TRUE,
          n |-> Cardinality({i \in 1..Len(df.rows) :
                               Column(df, col)[i] = value})]
    ELSE [numpy |-> FALSE, n |-> 0]

\* count/total_employees*100 without a guard: dividing a Python int by zero
\* raises ZeroDivisionError, dividing a numpy integer by zero gives nan or
\* inf, the fraction of denominator 0 here.
ShareRaises(count, total_employees) == ~count.numpy /\ total_employees = 0

Share(count, total_employees) == Times(Frac(count.n, total_employees), 100)

\* if col in df.columns: pd.to_numeric(df[col], errors='coerce').mean()
CoercedMean(df, col) ==
    IF HasColumn(df, col)
    THEN Shown(NumMean(to_numeric_coerce(Column(df, col))))
    ELSE Omitted

\* What display_human_resources shows of the workforce overview and of the
\* workload means.
display_human_resources(session, catalog) ==
    LET fn == "display_human_resources"
        products == catalog["Human Resource Management"]
        available == [k \in {id \in DOMAIN session.datasets :
                               \E i \in 1..Len(products) : products[i] = id}
                        |-> session.datasets[k]]
        df == available[Id("CHEDS-HR-21")].data
        total_employees == Len(df.rows)
        male_count == CountEquals(df, "Emp_Gender", "M")
        female_count == CountEquals(df, "Emp_Gender", "F")
        uae_nationals == CountEquals(df, "Emp_Nationality", "AE")
        expats == [numpy |-> uae_nationals.numpy,
                   n |-> total_employees - uae_nationals.n]
        plo == available[Id("CHEDS-HR-23")].data
        load == available[Id("CHEDS-HR-22")].data
    IN  IF DOMAIN available = {}
        THEN [fn |-> fn, shown |-> FALSE, raised |-> "none"]
        ELSE IF /\ Id("CHEDS-HR-21") \in DOMAIN available
                /\ \E c \in {male_count, female_count, uae_nationals,
                              expats} : ShareRaises(c, total_employees)
        THEN Raised(fn, "ZeroDivisionError")
        ELSE IF /\ Id("CHEDS-HR-23") \in DOMAIN available
                /\ \/ ~HasColumn(plo, "PLO_Program_code")
                   \/ ~HasColumn(plo, "PLO_Institution_Name")
        THEN Raised(fn, "KeyError")
        ELSE [fn |-> fn, shown |-> TRUE, raised |-> "none",
              workforce |->
                  IF Id("CHEDS-HR-21") \notin DOMAIN available
                  THEN [shown |-> FALSE]
                  ELSE
                  [shown |-> TRUE,
                   total_employees |-> total_employees,
                   male_count |-> male_count.n,
                   male_share |-> Share(male_count, total_employees),
                   female_count |-> female_count.n,
                   female_share |-> Share(female_count, total_employees),
                   uae_nationals |-> uae_nationals.n,
                   uae_share |-> Share(uae_nationals, total_employees),
                   expats |-> expats.n,
                   expat_share |-> Share(expats, total_employees)],
              workload |->
                  IF Id("CHEDS-HR-22") \notin DOMAIN available
                  THEN [shown |-> FALSE]
                  ELSE [shown |-> TRUE,
                        avg_teaching |->
                            CoercedMean(load, "Load_Teaching_Workload"),
                        avg_research |->
                            CoercedMean(load, "Load_Research_Workload"),
                        avg_max |->
                            CoercedMean(load, "Load_Maximum_Workload")]]

----------------------------------------------------------------------------
(* display_financial and display_research *)

\* The columns the CAPEX, OPEX and revenue breakdowns read by name.
CapexCategoryColumns ==
    <<"Finance_Capex_Academic", "Finance_Capex_Administrative",
      "Finance_Capex_Infra", "Finance_Capex_Library",
      "Finance_Capex_Research", "Finance_Capex_Student",
      "Finance_Capex_Other">>

OpexCategoryColumns ==
    <<"Finance_Opex_Academic", "Finance_Opex_Administrative",
      "Finance_Opex_Infra", "Finance_Opex_Library", "Finance_Opex_Research",
      "Finance_Opex_Intellect_Property", "Finance_Opex_Student",
      "Finance_Opex_Other">>

RevenueSourceColumns ==
    <<"Finance_Revenue_TuitionFees_UG_Credit_Course",
      "Finance_Revenue_TuitionFees_UG_Noncredit_Course",
      "Finance_Revenue_TuitionFees_Graduate_Program",
      "Finance_Revenue_Private_Donation", "Finance_Revenue_Local_Gov",
      "Finance_Revenue_Federal_Gov",
      "Finance_Revenue_External_Research_Grants",
      "Finance_Revenue_Consult_Service", "Finance_Revenue_Internal_Other",
      "Finance_Revenue_External_Other">>

\* capex_cols: the columns of the table whose name contains 'Finance_Capex_',
\* in the table's order; of the column names of the model these are the
\* category columns.
capex_cols(df) ==
    SelectSeq(df.columns,
              LAMBDA c : \E j \in 1..Len(CapexCategoryColumns) :
                            CapexCategoryColumns[j] = c)

\* The sum of a column after pd.to_numeric(errors='coerce').
CoercedSum(df, col) == NumSum(to_numeric_coerce(Column(df, col)))

\* df_capex[capex_cols].sum(axis=1): per row the sum of the coerced cells.
Total_CAPEX(df) ==
    [i \in 1..Len(df.rows) |->
        Present(SumSeq([j \in 1..Len(capex_cols(df)) |->
                          to_numeric_coerce(
                              Column(df, capex_cols(df)[j]))[i].value]))]

\* The first of the named columns the table lacks, if any.
LacksOneOf(df, names) == \E j \in 1..Len(names) : ~HasColumn(df, names[j])

\* What display_financial can show, through the revenue by institution.
display_financial(session, catalog) ==
    LET fn == "display_financial"
        products == catalog["Financial Management"]
        available == [k \in {id \in DOMAIN session.datasets :
                               \E i \in 1..Len(products) : products[i] = id}
                        |-> session.datasets[k]]
        df == available[Id("CHEDS-FIN-25")].data
        inst == "Finance_Institution_Name"
        revenue == "Finance_Total_Revenue"
    IN  IF DOMAIN available = {}
        THEN {[fn |-> fn, shown |-> FALSE, raised |-> "none"]}
        ELSE IF Id("CHEDS-FIN-25") \notin DOMAIN available
        THEN {[fn |-> fn, shown |-> TRUE, raised |-> "none",
               overview |-> FALSE]}
        ELSE IF \/ LacksOneOf(df, CapexCategoryColumns)
                \/ LacksOneOf(df, OpexCategoryColumns)
                \/ LacksOneOf(df, RevenueSourceColumns)
        THEN {Raised(fn, "KeyError")}
        ELSE {[fn |-> fn, shown |-> TRUE, raised |-> "none",
               overview |-> TRUE,
               total_capex |->
                   SumSeq([j \in 1..Len(capex_cols(df)) |->
                             CoercedSum(df, capex_cols(df)[j])]),
               total_revenue |->
                   IF HasColumn(df, revenue) THEN CoercedSum(df, revenue)
                   ELSE 0,
               inst_capex |-> c, inst_revenue |-> r] :
                c \in IF HasColumn(df, inst)
                      THEN {Shown(HeadN(q, 10)) :
                              q \in DescOrders(
                                      GroupBySum(df, inst, Total_CAPEX(df)))}
                      ELSE {Omitted},
                r \in IF HasColumn(df, inst) /\ HasColumn(df, revenue)
                      THEN {Shown(HeadN(q, 10)) :
                              q \in DescOrders(
                                      GroupBySum(df, inst,
                                          to_numeric_coerce(
                                              Column(df, revenue))))}
                      ELSE {Omitted}}

\* The table with one more column.
WithColumn(df, name, cells) ==
    [columns |-> Append(df.columns, name),
     rows |-> [i \in 1..Len(df.rows) |-> Append(df.rows[i], cells[i])]]

\* The table with the cells of the given columns coerced to numbers.
Coerced(df, cols) ==
    [df EXCEPT !.rows =
        [i \in 1..Len(df.rows) |->
            [j \in 1..Len(df.columns) |->
                IF /\ \E n \in 1..Len(cols) : cols[n] = df.columns[j]
                   /\ ~IsNumeral(df.rows[i][j])
                THEN NaN ELSE df.rows[i][j]]]]

\* The table with Total_CAPEX added and the CAPEX columns coerced.
WithTotalCapex(df) ==
    WithColumn(Coerced(df, capex_cols(df)), "Total_CAPEX",
               [i \in 1..Len(df.rows) |-> ToString(Total_CAPEX(df)[i].value)])

\* The two tables when the CAPEX columns are written without a copy.
CapexFrameInPlace(df) ==
    [df |-> WithTotalCapex(df), df_capex |-> WithTotalCapex(df)]

\* df_capex = df.copy() and the writes to df_capex: the Registry's table
\* and the copy afterwards.
CapexFrame(df) == [df |-> df, df_capex |-> WithTotalCapex(df)]

\* st.session_state.datasets as display_financial leaves it.
financial_registry(session, catalog) ==
    LET ds == session.datasets
        id == Id("CHEDS-FIN-25")
    IN  IF /\ \E i \in 1..Len(catalog["Financial Management"]) :
                catalog["Financial Management"][i] = id
           /\ id \in DOMAIN ds
           /\ ~LacksOneOf(ds[id].data, CapexCategoryColumns)
           /\ HasColumn(ds[id].data, "Finance_Institution_Name")
        THEN [ds EXCEPT ![id].data = CapexFrame(@).df]
        ELSE ds

\* df_citations = df.copy() and the column written to df_citations: the
\* Registry's table and the copy afterwards.
CitationsFrame(df) ==
    [df |-> df,
     df_citations |->
         WithColumn(df, "Pub_Total_Citations_Numeric",
                    [i \in 1..Len(df.rows) |->
                        ToString(fillna0(to_numeric_coerce(
                            Column(df, "Pub_Total_Citations")))[i].value)])]

\* st.session_state.datasets as display_research leaves it.
research_registry(session, catalog) ==
    LET ds == session.datasets
        id == Id("CHEDS-RES-27")
    IN  IF /\ \E i \in 1..Len(catalog["Research"]) :
                catalog["Research"][i] = id
           /\ id \in DOMAIN ds
           /\ HasColumn(ds[id].data, "Pub_Institution")
           /\ HasColumn(ds[id].data, "Pub_Total_Citations")
        THEN [ds EXCEPT ![id].data = CitationsFrame(@).df]
        ELSE ds

\* What display_research can show of the publications, through the top
\* cited institutions.
display_research(session, catalog) ==
    LET fn == "display_research"
        products == catalog["Research"]
        available == [k \in {id \in DOMAIN session.datasets :
                               \E i \in 1..Len(products) : products[i] = id}
                        |-> session.datasets[k]]
        df == available[Id("CHEDS-RES-27")].data
        citations == "Pub_Total_Citations"
    IN  IF DOMAIN available = {}
        THEN {[fn |-> fn, shown |-> FALSE, raised |-> "none"]}
        ELSE IF Id("CHEDS-RES-27") \notin DOMAIN available
        THEN {[fn |-> fn, shown |-> TRUE, raised |-> "none",
               publications |-> FALSE]}
        ELSE IF ~HasColumn(df, "Pub_Institution")
        THEN {Raised(fn, "KeyError")}
        ELSE {[fn |-> fn, shown |-> TRUE, raised |-> "none",
               publications |-> TRUE,
               total_publications |-> Len(df.rows),
               total_citations |->
                   IF HasColumn(df, citations) THEN CoercedSum(df, citations)
                   ELSE 0,
               top_cited |-> t] :
                t \in IF HasColumn(df, citations)
                      THEN {Shown(HeadN(q, 10)) :
                              q \in DescOrders(
                                      GroupBySum(df, "Pub_Institution",
                                          fillna0(to_numeric_coerce(
                                              Column(df, citations)))))}
                      ELSE {Omitted}}

----------------------------------------------------------------------------
(* display_facilities *)

\* a/b <= c/d for fractions of positive denominator.
FracLeq(f, g) == f.num * g.den <= g.num * f.den

\* sort_values(ascending=False) of (key, mean) pairs: the means that are
\* numbers in an order in which they do not increase, then the pairs whose
\* mean is nan.
RECURSIVE DescMeanOrders(_)
DescMeanOrders(pairs) ==
    IF pairs = {} THEN {<< >>}
    ELSE LET numbers == {q \in pairs : q[2].den # 0}
             first == IF numbers = {} THEN pairs
                      ELSE {q \in numbers :
                              \A r \in numbers : FracLeq(r[2], q[2])}
         IN  UNION {{<<p>> \o rest : rest \in DescMeanOrders(pairs \ {p})} :
                      p \in first}

\* df.groupby(g)[v].apply(lambda x: pd.to_numeric(x, errors='coerce').mean())
GroupByMean(df, g, v) ==
    {<<key, NumMean([n \in 1..Len(RowsOfGroup(df, g, key)) |->
                       to_numeric_coerce(Column(df, v))[
                           RowsOfGroup(df, g, key)[n]]])>> :
        key \in GroupKeys(df, g)}

\* What display_facilities can show of the operations metrics, through the
\* class size by institution.
display_facilities(session, catalog) ==
    LET fn == "display_facilities"
        products == catalog["Facilities & Estate Management"]
        available == [k \in {id \in DOMAIN session.datasets :
                               \E i \in 1..Len(products) : products[i] = id}
                        |-> session.datasets[k]]
        df == available[Id("CHEDS-FAC-33")].data
        inst == "Operations_Institution_Name"
        class == "Operations_Average_Class_Size"
    IN  IF DOMAIN available = {}
        THEN {[fn |-> fn, shown |-> FALSE, raised |-> "none"]}
        ELSE IF Id("CHEDS-FAC-33") \notin DOMAIN available
        THEN {[fn |-> fn, shown |-> TRUE, raised |-> "none",
               operations |-> FALSE]}
        ELSE IF ~HasColumn(df, inst)
        THEN {Raised(fn, "KeyError")}
        ELSE {[fn |-> fn, shown |-> TRUE, raised |-> "none",
               operations |-> TRUE,
               avg_class_size |-> CoercedMean(df, class),
               avg_lab_size |->
                   CoercedMean(df, "Operations_Average_Lab_Size"),
               inst_class |-> c] :
                c \in IF HasColumn(df, class)
                      THEN {Shown(HeadN(q, 10)) :
                              q \in DescMeanOrders(
                                      GroupByMean(df, inst, class))}
                      ELSE {Omitted}}

----------------------------------------------------------------------------
(* The state machine *)

FsStates ==
    {[exists |-> TRUE, files |-> S] : S \in SUBSET DirFiles}
      \cup {[exists |-> FALSE, files |-> {}]}

Init ==
    /\ datasets = EmptyDict
    /\ data_loaded = FALSE
    /\ auto_load_attempted = FALSE
    /\ PRODUCT_CATEGORIES = CatalogLiteral
    /\ uploaded_files = << >>
    /\ rerun_requested = FALSE
    /\ fs \in FsStates
    /\ last = [op |-> "init", reload |-> "none", upload |-> "none",
               views |-> FALSE]
    /\ rendered = NothingRendered

\* What a script run leaves behind.
Ran(op, m) ==
    /\ datasets' = m.session.datasets
    /\ data_loaded' = m.session.data_loaded
    /\ PRODUCT_CATEGORIES' = CatalogLiteral
    /\ rerun_requested' = m.rerun
    /\ last' = [op |-> op, reload |-> m.reload, upload |-> m.upload,
                views |-> m.views]
    /\ rendered' = IF m.views THEN Page(m.session, CatalogLiteral)
                              ELSE NothingRendered

\* The first script run of the session: the auto-load block, then main().
FirstRun ==
    /\ ~auto_load_attempted
    /\ auto_load_attempted' = TRUE
    /\ \E order \in Orderings(CsvFiles(fs)) :
         Ran("startup",
             Main(StartupAutoLoad(Session(datasets, data_loaded), fs, order),
                  FALSE, uploaded_files, fs, order))
    /\ UNCHANGED <<uploaded_files, fs>>

\* The user clicks "Reload All CSV Files".
ReloadClick ==
    /\ auto_load_attempted
    /\ ~rerun_requested
    /\ \E order \in Orderings(CsvFiles(fs)) :
         Ran("reload",
             Main(Session(datasets, data_loaded), TRUE, uploaded_files, fs,
                  order))
    /\ UNCHANGED <<auto_load_attempted, uploaded_files, fs>>

\* The user changes the selection of the upload widget.
UploadChange ==
    /\ auto_load_attempted
    /\ ~rerun_requested
    /\ \E files \in SeqsUpTo(UploadFiles, MaxBatch) :
         /\ files # uploaded_files
         /\ uploaded_files' = files
         /\ Ran("upload",
                Main(Session(datasets, data_loaded), FALSE, files, fs, << >>))
    /\ UNCHANGED <<auto_load_attempted, fs>>

\* Any other widget interaction (tab, filter, selector) runs the script again.
Interact ==
    /\ auto_load_attempted
    /\ ~rerun_requested
    /\ Ran("interact",
           Main(Session(datasets, data_loaded), FALSE, uploaded_files, fs,
                << >>))
    /\ UNCHANGED <<auto_load_attempted, uploaded_files, fs>>

\* The run started by st.rerun() after a successful reload.
RerunAfterReload ==
    /\ rerun_requested
    /\ Ran("rerun",
           Main(Session(datasets, data_loaded), FALSE, uploaded_files, fs,
                << >>))
    /\ UNCHANGED <<auto_load_attempted, uploaded_files, fs>>

\* The directory changes on disk between script runs (the run st.rerun()
\* asks for starts at once, so no change falls between the two).
FsChange ==
    /\ ~rerun_requested
    /\ \/ /\ fs.exists
          /\ \E f \in DirFiles \ fs.files :
               fs' = [fs EXCEPT !.files = @ \cup {f}]
       \/ /\ fs.exists
          /\ \E f \in fs.files : fs' = [fs EXCEPT !.files = @ \ {f}]
       \/ /\ fs.exists
          /\ fs' = [exists |-> FALSE, files |-> {}]
       \/ /\ ~fs.exists
          /\ fs' = [exists |-> TRUE, files |-> {}]
    /\ last' = [op |-> "fs", reload |-> "none", upload |-> "none",
                views |-> FALSE]
    /\ UNCHANGED rendered
    /\ UNCHANGED <<datasets, data_loaded, auto_load_attempted,
                   PRODUCT_CATEGORIES, uploaded_files, rerun_requested>>

Next ==
    \/ FirstRun
    \/ ReloadClick
    \/ UploadChange
    \/ Interact
    \/ RerunAfterReload
    \/ FsChange

Spec == Init /\ [][Next]_vars

----------------------------------------------------------------------------
(* The overview over directories of generated files *)

\* A CSV file of r records under a header of c columns.
GenContent(r, c) ==
    <<[j \in 1..c |-> ToString(j)]>> \o [i \in 1..r |-> [j \in 1..c |-> "1"]]

GenFile(id, suffix, r, c) ==
    [name |-> <<id, "_", suffix, ".", "csv">>, content |-> GenContent(r, c)]

GenFiles(id, suffix) ==
    {GenFile(id, suffix, r, c) : r \in 0..MaxRows, c \in 1..MaxCols}

\* No file or one file of S.
AtMostOne(S) == {{}} \cup {{f} : f \in S}

\* Directories with at most one file per product: two catalogued products
\* of one domain, the only product of another domain, a product of a third
\* and a product no domain lists.
OverviewDirs ==
    {[exists |-> TRUE, files |-> a \cup b \cup c \cup d \cup e] :
        a \in AtMostOne(GenFiles("CHEDS-LT-01", "x")
                          \cup {GenFile("CHEDS-LT-01", "x", 10, 3)}),
        b \in AtMostOne(GenFiles("CHEDS-HR-21", "y")
                          \cup {GenFile("CHEDS-HR-21", "y", 5, 4)}),
        c \in AtMostOne({GenFile("CHEDS-HR-22", "w", MaxRows, MaxCols)}),
        d \in AtMostOne({GenFile("CHEDS-FIN-25", "z", 1, 1)}),
        e \in AtMostOne(GenFiles("misc", "a"))}

OverviewInit ==
    /\ datasets = EmptyDict
    /\ data_loaded = FALSE
    /\ auto_load_attempted = FALSE
    /\ PRODUCT_CATEGORIES = CatalogLiteral
    /\ uploaded_files = << >>
    /\ rerun_requested = FALSE
    /\ fs \in OverviewDirs
    /\ last = [op |-> "init", reload |-> "none", upload |-> "none",
               views |-> FALSE]
    /\ rendered = NothingRendered

OverviewNext ==
    \/ FirstRun
    \/ Interact

OverviewSpec == OverviewInit /\ [][OverviewNext]_vars

----------------------------------------------------------------------------
(* The domain views over directories of sample tables *)

\* The longest sample table whose cells are enumerated.
MaxViewRows == 2

\* The longest sample column whose values are enumerated for counting.
MaxCountRows == 6

\* The CSV files of a product under a header whose records are drawn from
\* the given set, up to n records.
TableFiles(id, header, records, n) ==
    {[name |-> <<id, "_", "v", ".", "csv">>, content |-> <<header>> \o recs] :
        recs \in SeqsUpTo(records, n)}

\* The record sets of the samples: per column the fields it can hold.
Records(fields) ==
    {q \in [1..Len(fields) -> UNION {fields[j] : j \in 1..Len(fields)}] :
        \A j \in 1..Len(fields) : q[j] \in fields[j]}

\* CHEDS-LT-01: applicant counts that are numbers, text or empty, next to a
\* gender; and tables that have a gender or a nationality and no applicant
\* count.
ApplicantFiles ==
    TableFiles("CHEDS-LT-01", <<"App_Gender", "App_Applicants">>,
               Records(<<{"M", "F"}, {"2", "3", "x", ""}>>), MaxViewRows)
      \cup TableFiles("CHEDS-LT-01", <<"App_Gender">>,
                      Records(<<{"M", "F"}>>), 1)
      \cup TableFiles("CHEDS-LT-01",
                      <<"App_Institution_Name", "App_Nationality">>,
                      Records(<<{"U1"}, {"AE"}>>), 1)
      \cup TableFiles("CHEDS-LT-01",
                      <<"App_Institution_Name", "App_Applicants">>,
                      Records(<<{"U1", "U2"}, {"2", "3"}>>), MaxViewRows)

\* A column in which value k of n occurs counts[k] times, the occurrences
\* of a value next to each other.
RECURSIVE Repeated(_, _)
Repeated(values, counts) ==
    IF values = << >> THEN << >>
    ELSE [i \in 1..Head(counts) |-> <<Head(values)>>]
           \o Repeated(Tail(values), Tail(counts))

\* CHEDS-LT-03: every gender column over three values; and a nationality
\* column of eleven values, one more than the chart keeps, the last two
\* equally frequent.
EnrollmentFiles ==
    TableFiles("CHEDS-LT-03", <<"Enroll_Gender">>,
               Records(<<{"A", "B", "C"}>>), MaxCountRows)
      \cup {[name |-> <<"CHEDS-LT-03", "_", "n", ".", "csv">>,
             content |->
                 << <<"Stu_Nationality">> >> \o
                 Repeated(<<"N01", "N02", "N03", "N04", "N05", "N06", "N07",
                            "N08", "N09", "N10", "N11">>,
                          <<4, 4, 3, 3, 3, 2, 2, 2, 2, 1, 1>>)]}

\* CHEDS-HR-21 with and without the gender and nationality columns, from no
\* record up.
WorkforceFiles ==
    TableFiles("CHEDS-HR-21", <<"Emp_Gender", "Emp_Nationality">>,
               Records(<<{"M", "F"}, {"AE", "IN"}>>), MaxViewRows)
      \cup TableFiles("CHEDS-HR-21", <<"Emp_Name">>,
                      Records(<<{"n"}>>), MaxViewRows)
      \cup TableFiles("CHEDS-HR-21", <<"Emp_Gender">>,
                      Records(<<{"M", "F"}>>), 1)

\* The category and source columns of CHEDS-FIN-25 whose cells the samples
\* do not vary.
OtherFinanceColumns ==
    SelectSeq(CapexCategoryColumns,
              LAMBDA c : c \notin {"Finance_Capex_Academic",
                                   "Finance_Capex_Library"})
      \o OpexCategoryColumns \o RevenueSourceColumns

\* CHEDS-FIN-25: an institution, two CAPEX columns and the total revenue
\* holding numbers, text or nothing, every other category column holding 1;
\* the same without the total revenue; and a table without the category
\* columns.
FinanceFiles ==
    TableFiles("CHEDS-FIN-25",
               <<"Finance_Institution_Name", "Finance_Capex_Academic",
                 "Finance_Capex_Library", "Finance_Total_Revenue">>
                 \o OtherFinanceColumns,
               {q \o [j \in 1..Len(OtherFinanceColumns) |-> "1"] :
                  q \in Records(<<{"U1", "U2"}, {"2", "x"}, {"3", ""},
                                  {"5", "x"}>>)},
               MaxViewRows)
      \cup TableFiles("CHEDS-FIN-25",
                      <<"Finance_Institution_Name", "Finance_Capex_Academic",
                        "Finance_Capex_Library">> \o OtherFinanceColumns,
                      {<<"U1", "2", "3">>
                         \o [j \in 1..Len(OtherFinanceColumns) |-> "1"]},
                      1)
      \cup TableFiles("CHEDS-FIN-25",
                      <<"Finance_Institution_Name", "Finance_Total_Revenue">>,
                      Records(<<{"U1"}, {"5"}>>), 1)

\* CHEDS-RES-27: an institution, possibly missing, and a citation count
\* that is a number, text or nothing; and a table without the institution.
PublicationFiles ==
    TableFiles("CHEDS-RES-27", <<"Pub_Institution", "Pub_Total_Citations">>,
               Records(<<{"U1", "U2", ""}, {"4", "x", ""}>>), MaxViewRows)
      \cup TableFiles("CHEDS-RES-27", <<"Pub_Institution">>,
                      Records(<<{"U1"}>>), 1)
      \cup TableFiles("CHEDS-RES-27", <<"Pub_Total_Citations">>,
                      Records(<<{"4"}>>), 1)

\* CHEDS-HR-22: two workload columns holding numbers, text or nothing.
WorkloadFiles ==
    TableFiles("CHEDS-HR-22",
               <<"Load_Teaching_Workload", "Load_Research_Workload">>,
               Records(<<{"2", "4", "x", ""}, {"3", "x"}>>), MaxViewRows)

\* CHEDS-FAC-33: an institution and a class size that is a number, text or
\* nothing; and a table without the institution.
OperationsFiles ==
    TableFiles("CHEDS-FAC-33",
               <<"Operations_Institution_Name",
                 "Operations_Average_Class_Size">>,
               Records(<<{"U1", "U2"}, {"2", "4", "x", ""}>>), MaxViewRows)
      \cup TableFiles("CHEDS-FAC-33", <<"Operations_Average_Class_Size">>,
                      Records(<<{"2"}>>), 1)

OneEnrolled ==
    [name |-> <<"CHEDS-LT-03", "_", "v", ".", "csv">>,
     content |-> << <<"Enroll_Gender">>, <<"M">> >>]

OneCourse ==
    [name |-> <<"CHEDS-LT-11", "_", "v", ".", "csv">>,
     content |-> << <<"Course">>, <<"c">> >>]

OneGraduate ==
    [name |-> <<"CHEDS-LT-09", "_", "v", ".", "csv">>,
     content |-> << <<"Grad">>, <<"g">> >>]

\* Directories of one domain each, at most one file per product.
ViewDirs ==
    {[exists |-> TRUE, files |-> {a} \cup b \cup c] :
        a \in ApplicantFiles,
        b \in AtMostOne({OneEnrolled}),
        c \in {{}, {OneCourse, OneGraduate}}}
      \cup {[exists |-> TRUE, files |-> {f}] : f \in EnrollmentFiles}
      \cup {[exists |-> TRUE, files |-> {f}] : f \in WorkforceFiles}
      \cup {[exists |-> TRUE, files |-> {f}] : f \in FinanceFiles}
      \cup {[exists |-> TRUE, files |-> {f}] : f \in PublicationFiles}
      \cup {[exists |-> TRUE, files |-> {f}] : f \in WorkloadFiles}
      \cup {[exists |-> TRUE, files |-> {f}] : f \in OperationsFiles}
      \cup {[exists |-> TRUE,
             files |-> {GenFile("CHEDS-FAC-34", "w", 1, 1)}]}
      \cup {[exists |-> TRUE,
             files |-> {GenFile("CHEDS-RES-26", "w", 1, 1)}]}
      \cup {[exists |-> TRUE,
             files |-> {GenFile("CHEDS-HR-22", "w", 1, 1)}]}

ViewInit ==
    /\ datasets = EmptyDict
    /\ data_loaded = FALSE
    /\ auto_load_attempted = FALSE
    /\ PRODUCT_CATEGORIES = CatalogLiteral
    /\ uploaded_files = << >>
    /\ rerun_requested = FALSE
    /\ fs \in ViewDirs
    /\ last = [op |-> "init", reload |-> "none", upload |-> "none",
               views |-> FALSE]
    /\ rendered = NothingRendered

\* main() calls a display function in a tab of a run that has data; tab is
\* what the function showed, or the exception that ended it, and registry is
\* st.session_state.datasets as the function leaves it.
Displays(tab, registry) ==
    /\ auto_load_attempted
    /\ data_loaded
    /\ ~rerun_requested
    /\ rendered' = [rendered EXCEPT !.tab = tab]
    /\ last' = [last EXCEPT !.op = "display"]
    /\ datasets' = registry
    /\ UNCHANGED <<data_loaded, auto_load_attempted, PRODUCT_CATEGORIES,
                   uploaded_files, rerun_requested, fs>>

LearningTeachingTab ==
    \E tab \in display_learning_teaching(Session(datasets, data_loaded),
                                         PRODUCT_CATEGORIES) :
        Displays(tab, datasets)

HumanResourcesTab ==
    Displays(display_human_resources(Session(datasets, data_loaded),
                                     PRODUCT_CATEGORIES),
             datasets)

FinancialTab ==
    \E tab \in display_financial(Session(datasets, data_loaded),
                                 PRODUCT_CATEGORIES) :
        Displays(tab,
                 financial_registry(Session(datasets, data_loaded),
                                    PRODUCT_CATEGORIES))

ResearchTab ==
    \E tab \in display_research(Session(datasets, data_loaded),
                                PRODUCT_CATEGORIES) :
        Displays(tab,
                 research_registry(Session(datasets, data_loaded),
                                   PRODUCT_CATEGORIES))

FacilitiesTab ==
    \E tab \in display_facilities(Session(datasets, data_loaded),
                                  PRODUCT_CATEGORIES) :
        Displays(tab, datasets)

ViewNext ==
    \/ FirstRun
    \/ LearningTeachingTab
    \/ HumanResourcesTab
    \/ FinancialTab
    \/ ResearchTab
    \/ FacilitiesTab

ViewSpec == ViewInit /\ [][ViewNext]_vars

----------------------------------------------------------------------------
(* The data explorer over directories of sample tables *)

\* n records equal to row.
Copies(row, n) == [i \in 1..n |-> row]

\* A table of 20 records whose second column holds text, numbers written
\* with a leading zero and empty fields; one whose second column holds
\* numbers and empty fields; and one of a single column of which one field
\* is empty.
MixedContent ==
    << <<"Name", "Val">> >> \o Copies(<<"a", "07">>, 8)
      \o Copies(<<"b", "x">>, 6) \o Copies(<<"a", "">>, 6)

NumericContent ==
    << <<"Name", "Val">> >> \o Copies(<<"a", "2">>, 10)
      \o Copies(<<"b", "">>, 6) \o Copies(<<"b", "3">>, 4)

ExplorerFile(id, content) ==
    [name |-> id \o <<"_", "e", ".", "csv">>, content |-> content]

\* Directories with at most one file per product: tables of 0 to MaxRows,
\* of 19 and of 20 records, the sample tables, a file whose product id holds
\* a ':' and a file whose product id is the text before that ':'.
ExplorerDirs ==
    {[exists |-> TRUE, files |-> a \cup b \cup c \cup d] :
        a \in AtMostOne(GenFiles("CHEDS-LT-01", "x")
                          \cup {GenFile("CHEDS-LT-01", "x", 19, 1),
                                GenFile("CHEDS-LT-01", "x", 20, 1),
                                ExplorerFile(<<"CHEDS-LT-01">>,
                                             MixedContent)}),
        b \in AtMostOne({ExplorerFile(<<"CHEDS-HR-21">>, NumericContent)}),
        c \in AtMostOne({ExplorerFile(<<"CHEDS", ":", "X">>,
                                      GenContent(20, 1))}),
        d \in AtMostOne({ExplorerFile(<<"CHEDS">>, GenContent(21, 1))})}

ExplorerInit ==
    /\ datasets = EmptyDict
    /\ data_loaded = FALSE
    /\ auto_load_attempted = FALSE
    /\ PRODUCT_CATEGORIES = CatalogLiteral
    /\ uploaded_files = << >>
    /\ rerun_requested = FALSE
    /\ fs \in ExplorerDirs
    /\ last = [op |-> "init", reload |-> "none", upload |-> "none",
               views |-> FALSE]
    /\ rendered = NothingRendered

\* The selections of the column multiselect: none, meaning all columns, one
\* column, or two columns in the order the user picked them.
ColumnSelections(columns) ==
    LET names == {columns[j] : j \in 1..Len(columns)}
    IN  {<< >>} \cup {<<c>> : c \in names}
          \cup {q \in {<<c, d>> : c \in names, d \in names} : q[1] # q[2]}

\* The data explorer tab, for a file, columns, a row limit and filters the
\* user has picked.
DataExplorerTab ==
    \E selected_file \in file_options(datasets) :
      \E k \in DOMAIN datasets :
        /\ selected_file = Option(k, datasets[k].filename)
        /\ \E selected_columns \in ColumnSelections(datasets[k].data.columns),
              row_limit \in {5, 20, Min(100, Len(datasets[k].data.rows))} :
             \E tab \in display_data_explorer(
                            Session(datasets, data_loaded), selected_file,
                            selected_columns, row_limit) :
                Displays(tab, datasets)

ExplorerNext ==
    \/ FirstRun
    \/ DataExplorerTab

ExplorerSpec == ExplorerInit /\ [][ExplorerNext]_vars

----------------------------------------------------------------------------
(* Every view over the directories of the domain views and of the explorer *)

\* Directories of one file: the sample tables of the domain views that have
\* at most one record, and two tables of 20 records for the explorer.
RenderDirs ==
    {[exists |-> TRUE, files |-> {f}] :
        f \in {g \in ApplicantFiles \cup EnrollmentFiles \cup WorkforceFiles
                       \cup FinanceFiles \cup PublicationFiles
                       \cup WorkloadFiles \cup OperationsFiles :
                  Len(g.content) <= 2}
               \cup {ExplorerFile(<<"CHEDS-FAC-34">>, MixedContent),
                     ExplorerFile(<<"CHEDS-SS-28">>, NumericContent)}}

RenderInit ==
    /\ datasets = EmptyDict
    /\ data_loaded = FALSE
    /\ auto_load_attempted = FALSE
    /\ PRODUCT_CATEGORIES = CatalogLiteral
    /\ uploaded_files = << >>
    /\ rerun_requested = FALSE
    /\ fs \in RenderDirs
    /\ last = [op |-> "init", reload |-> "none", upload |-> "none",
               views |-> FALSE]
    /\ rendered = NothingRendered

RenderNext ==
    \/ FirstRun
    \/ Interact
    \/ DataExplorerTab
    \/ LearningTeachingTab
    \/ HumanResourcesTab
    \/ FinancialTab
    \/ ResearchTab
    \/ FacilitiesTab

RenderSpec == RenderInit /\ [][RenderNext]_vars

TypeOK ==
    /\ data_loaded \in BOOLEAN
    /\ auto_load_attempted \in BOOLEAN
    /\ rerun_requested \in BOOLEAN
    /\ fs \in FsStates
    /\ Len(uploaded_files) <= MaxBatch
    /\ \A k \in DOMAIN datasets :
         datasets[k].rows \in Nat /\ datasets[k].columns \in Nat

----------------------------------------------------------------------------
(* Properties *)

Keys == DOMAIN datasets

Range(q) == {q[i] : i \in 1..Len(q)}

\* The product ids the upload branch derives from a batch.
BatchIds(files) == {UploadProductId(f.name) : f \in Range(files)}

\* files[i] parses and no later file of the batch with its id parses.
LastParsedOfItsId(files, i) ==
    /\ Parses(files[i])
    /\ \A j \in (i + 1)..Len(files) :
         UploadProductId(files[j].name) = UploadProductId(files[i].name)
           => ~Parses(files[j])

\* C1: the loaded flag is true exactly when the Registry is non-empty, in
\* every reachable session state.
C1_LoadedIffNonEmpty == data_loaded <=> (Keys # {})

\* C2: a directory load (startup or Reload) over a directory with CSV files
\* does not fail as a whole, and every file of the directory that parses has
\* its product_id in the Registry afterwards.
C2_DirectoryLoadSkipsBadFiles ==
    (last.op \in {"startup", "reload"} /\ CsvFiles(fs) # {}) =>
        /\ last.reload # "raise"
        /\ \A f \in CsvFiles(fs) :
             Parses(f) => ReloadProductId(f.name) \in Keys

\* C3: after the upload branch has run on a batch, every file of the batch
\* that parses is in the Registry, whether it stands before or after a file
\* that fails.
C3_UploadBatchIndependent ==
    last.upload # "none" =>
        \A i \in 1..Len(uploaded_files) :
            Parses(uploaded_files[i]) =>
                UploadProductId(uploaded_files[i].name) \in Keys

\* C4: an upload batch leaves every entry whose product_id the batch does not
\* derive as it was, and maps every product_id of the batch to the entry
\* built from the last file of the batch with that id.
C4_UploadMerges ==
    [][last'.upload # "none" =>
        /\ \A k \in Keys :
             k \notin BatchIds(uploaded_files') =>
                 k \in DOMAIN datasets' /\ datasets'[k] = datasets[k]
        /\ \A i \in 1..Len(uploaded_files') :
             LastParsedOfItsId(uploaded_files', i) =>
                 LET f == uploaded_files'[i]
                     k == UploadProductId(f.name)
                 IN  /\ k \in DOMAIN datasets'
                     /\ datasets'[k] = [data |-> read_csv(f.content),
                                        filename |-> f.name,
                                        rows |-> Len(read_csv(f.content).rows),
                                        columns |->
                                          Len(read_csv(f.content).columns)]
      ]_vars

\* C5: right after auto_load_csv_files has returned True (the rerun it asks
\* for has not started yet) the Registry's keys are exactly the product_ids
\* derived from the directory's CSV files.
C5_ReloadReplaces ==
    rerun_requested =>
        Keys = {SplitFirst(Stem(f.name), "_") : f \in CsvFiles(fs)}

\* C5 witness: a reload has returned True and dropped the entry of a file
\* the upload widget holds.
C5_Witness ==
    /\ rerun_requested
    /\ last.reload = "True"
    /\ uploaded_files # << >>
    /\ \A i \in 1..Len(uploaded_files) : Parses(uploaded_files[i])
    /\ \E i \in 1..Len(uploaded_files) :
         UploadProductId(uploaded_files[i].name) \notin Keys

\* C6: a reload that finds no CSV file while the Registry is non-empty and
\* loaded (and the upload widget is empty) empties the Registry and clears
\* the loaded flag.
C6_EmptyReloadClears ==
    [][(/\ Keys # {}
        /\ data_loaded
        /\ uploaded_files = << >>
        /\ CsvFiles(fs) = {}
        /\ last'.op = "reload") =>
           (DOMAIN datasets' = {} /\ ~data_loaded')]_vars

\* C7: after a directory load (startup or Reload) over a missing directory
\* or one without CSV files, the Registry is empty, whatever it held before.
C7_NoFilesGivesEmptyRegistry ==
    (/\ last.op \in {"startup", "reload"}
     /\ CsvFiles(fs) = {}
     /\ uploaded_files = << >>) => Keys = {}

\* C8: on every load path the product_id of an entry is the first segment
\* of its filename's stem split on '_' (the whole stem when the name has no
\* underscore).
C8_SameProductIdOnAllPaths ==
    \A k \in Keys : k = SplitFirst(Stem(datasets[k].filename), "_")

\* C9: every Registry entry's cached rows and columns are the numbers of
\* rows and columns of its table, in every reachable state.
C9_CachedCountsMatchTable ==
    \A k \in Keys :
        /\ datasets[k].rows = Len(datasets[k].data.rows)
        /\ datasets[k].columns = Len(datasets[k].data.columns)

\* C9 witness: the views have been rendered over a Registry holding an
\* uploaded table whose row and column counts differ.
C9_Witness ==
    /\ last.upload = "ok"
    /\ last.views
    /\ \E k \in Keys :
         /\ datasets[k].rows = 1
         /\ datasets[k].columns = 3
    /\ \E k \in Keys :
         /\ datasets[k].rows = 0
         /\ datasets[k].columns = 1

RECURSIVE SumLens(_, _)
SumLens(cat, doms) ==
    IF doms = {} THEN 0
    ELSE LET d == CHOOSE x \in doms : TRUE
         IN  Len(cat[d]) + SumLens(cat, doms \ {d})

\* C10: the catalog has exactly 7 domains, their product lists are pairwise
\* disjoint and hold 41 product identifiers together, and it is the same in
\* every reachable state.
C10_CatalogFixed ==
    /\ Cardinality(DOMAIN PRODUCT_CATEGORIES) = 7
    /\ \A d1, d2 \in DOMAIN PRODUCT_CATEGORIES :
         d1 # d2 =>
           Range(PRODUCT_CATEGORIES[d1]) \cap Range(PRODUCT_CATEGORIES[d2]) = {}
    /\ SumLens(PRODUCT_CATEGORIES, DOMAIN PRODUCT_CATEGORIES) = 41
    /\ Cardinality(UNION {Range(PRODUCT_CATEGORIES[d]) :
                            d \in DOMAIN PRODUCT_CATEGORIES}) = 41
    /\ PRODUCT_CATEGORIES = CatalogLiteral

\* C10 witness: script runs have loaded a catalogued product and rendered
\* the views.
C10_Witness ==
    /\ data_loaded
    /\ last.views
    /\ \E d \in DOMAIN PRODUCT_CATEGORIES :
         Range(PRODUCT_CATEGORIES[d]) \cap Keys # {}

\* The product ids some domain of the catalog lists.
Catalogued == UNION {Range(PRODUCT_CATEGORIES[d]) : d \in DOMAIN PRODUCT_CATEGORIES}

\* The sum of f over the set S.
RECURSIVE Sigma(_, _)
Sigma(f(_), S) ==
    IF S = {} THEN 0
    ELSE LET x == CHOOSE y \in S : TRUE
         IN  f(x) + Sigma(f, S \ {x})

TableRows(k) == Len(datasets[k].data.rows)

TableColumns(k) == Len(datasets[k].data.columns)

CachedRows(k) == datasets[k].rows

CachedColumns(k) == datasets[k].columns

\* C11: for every domain the overview's 'Products' is the number of the
\* domain's catalogued ids that are Registry keys, and it is at most
\* 'Total Products', the number of ids the domain lists.
C11_LoadedCountBounded ==
    rendered.overview.shown =>
        \A d \in DOMAIN PRODUCT_CATEGORIES :
            LET row == rendered.overview.domain_data[d]
            IN  /\ row.Products =
                     Cardinality(Range(PRODUCT_CATEGORIES[d]) \cap Keys)
                /\ row.TotalProducts =
                     Cardinality(Range(PRODUCT_CATEGORIES[d]))
                /\ row.Products <= row.TotalProducts

\* C11 witness: the overview is shown over a Registry that holds some but
\* not all products of a domain and a product of no domain.
C11_Witness ==
    /\ rendered.overview.shown
    /\ Keys \ Catalogued # {}
    /\ \E d \in DOMAIN PRODUCT_CATEGORIES :
         LET row == rendered.overview.domain_data[d]
         IN  0 < row.Products /\ row.Products < row.TotalProducts

\* C12: every domain's coverage lies in [0, 100], is 0 for a domain without
\* products and is exactly 100 when all the domain's products are loaded.
C12_CoverageRange ==
    /\ CoveragePct(<< >>, << >>).num = 0
    /\ rendered.overview.shown =>
         \A d \in DOMAIN PRODUCT_CATEGORIES :
            LET row == rendered.overview.domain_data[d]
                cov == row.CoveragePct
            IN  /\ cov.den > 0
                /\ 0 <= cov.num
                /\ cov.num <= 100 * cov.den
                /\ row.TotalProducts = 0 => cov.num = 0
                /\ Range(PRODUCT_CATEGORIES[d]) \subseteq Keys =>
                       cov.num = 100 * cov.den

\* C12 witness: the overview is shown with one domain fully loaded, one
\* partly and one not at all.
C12_Witness ==
    /\ rendered.overview.shown
    /\ \E d \in DOMAIN PRODUCT_CATEGORIES :
         Range(PRODUCT_CATEGORIES[d]) \subseteq Keys
    /\ \E d \in DOMAIN PRODUCT_CATEGORIES :
         LET cov == rendered.overview.domain_data[d].CoveragePct
         IN  0 < cov.num /\ cov.num < 100 * cov.den
    /\ \E d \in DOMAIN PRODUCT_CATEGORIES :
         rendered.overview.domain_data[d].CoveragePct.num = 0

\* C13: the overview's total_records is the sum of the cached row counts of
\* all Registry entries and total_products is the number of entries,
\* uncatalogued ones included; the sidebar status shows the same two numbers.
C13_OverviewTotals ==
    /\ rendered.overview.shown =>
         /\ rendered.overview.total_rows = Sigma(CachedRows, Keys)
         /\ rendered.overview.total_products = Cardinality(Keys)
    /\ rendered.sidebar.shown =>
         /\ rendered.sidebar.records = Sigma(CachedRows, Keys)
         /\ rendered.sidebar.products = Cardinality(Keys)

\* C13 witness: the overview is shown over a Registry with a catalogued and
\* an uncatalogued entry, both with rows.
C13_Witness ==
    /\ rendered.overview.shown
    /\ \E k \in Keys \ Catalogued : datasets[k].rows > 0
    /\ \E k \in Keys \cap Catalogued : datasets[k].rows > 0

IsScenario ==
    /\ Keys = {<<"CHEDS-LT-01">>, <<"CHEDS-HR-21">>}
    /\ datasets[<<"CHEDS-LT-01">>].filename =
         <<"CHEDS-LT-01", "_", "x", ".", "csv">>
    /\ TableRows(<<"CHEDS-LT-01">>) = 10
    /\ TableColumns(<<"CHEDS-LT-01">>) = 3
    /\ datasets[<<"CHEDS-HR-21">>].filename =
         <<"CHEDS-HR-21", "_", "y", ".", "csv">>
    /\ TableRows(<<"CHEDS-HR-21">>) = 5
    /\ TableColumns(<<"CHEDS-HR-21">>) = 4

\* C14: avg_records_per_product is the floor of total_records over
\* total_products when there are products and 0 otherwise; with
\* CHEDS-LT-01_x.csv (10 rows, 3 columns) and CHEDS-HR-21_y.csv (5 rows,
\* 4 columns) loaded the metrics are 2, 15, 7 and 7.
C14_AverageIsFloor ==
    rendered.overview.shown =>
        LET o == rendered.overview
            n == Cardinality(Keys)
            t == Sigma(TableRows, Keys)
        IN  /\ n > 0 => /\ o.avg_records_per_product * n <= t
                        /\ t < (o.avg_records_per_product + 1) * n
            /\ n = 0 => o.avg_records_per_product = 0
            /\ IsScenario => /\ o.total_products = 2
                             /\ o.total_rows = 15
                             /\ o.total_columns = 7
                             /\ o.avg_records_per_product = 7

\* C14 witness: the overview is shown for the two files of the scenario.
C14_Witness ==
    /\ rendered.overview.shown
    /\ IsScenario
    /\ rendered.overview.avg_records_per_product = 7

\* C15: every domain's 'Records' is the sum of the row counts of exactly the
\* domain's loaded products, and 'Avg Columns' is the mean of their column
\* counts, or 0 when the domain has no loaded product.
C15_DomainTotals ==
    rendered.overview.shown =>
        \A d \in DOMAIN PRODUCT_CATEGORIES :
            LET row == rendered.overview.domain_data[d]
                loaded == Range(PRODUCT_CATEGORIES[d]) \cap Keys
            IN  /\ row.Records = Sigma(CachedRows, loaded)
                /\ row.AvgColumns.den > 0
                /\ loaded = {} => row.AvgColumns.num = 0
                /\ loaded # {} =>
                     row.AvgColumns.num * Cardinality(loaded) =
                         Sigma(CachedColumns, loaded) * row.AvgColumns.den

\* C15 witness: the overview is shown with a domain that has two loaded
\* products of different column counts and a domain that has none.
C15_Witness ==
    /\ rendered.overview.shown
    /\ \E d \in DOMAIN PRODUCT_CATEGORIES :
         \E k1, k2 \in Range(PRODUCT_CATEGORIES[d]) \cap Keys :
            datasets[k1].columns # datasets[k2].columns
    /\ \E d \in DOMAIN PRODUCT_CATEGORIES :
         Range(PRODUCT_CATEGORIES[d]) \cap Keys = {}

\* The table of a loaded product.
TableOf(id) == datasets[Id(id)].data

IsZeroPct(f) == f.num = 0 /\ f.den # 0

\* C16: every percentage the dashboard computes (domain coverage, conversion
\* rates, HR gender and nationality shares) is 0 when its denominator is 0
\* and no division by zero is performed; in particular the HR workforce
\* shares are 0 when CHEDS-HR-21 has zero rows.
C16_PercentagesZeroOnZeroDenominator ==
    /\ rendered.tab.raised # "ZeroDivisionError"
    /\ rendered.overview.shown =>
         \A d \in DOMAIN PRODUCT_CATEGORIES :
            LET row == rendered.overview.domain_data[d]
            IN  /\ row.CoveragePct.den # 0
                /\ Len(PRODUCT_CATEGORIES[d]) = 0 =>
                     IsZeroPct(row.CoveragePct)
    /\ ( /\ rendered.tab.fn = "display_learning_teaching"
         /\ rendered.tab.raised = "none"
         /\ rendered.tab.shown
         /\ rendered.tab.conversion.shown ) =>
         LET c == rendered.tab.conversion
         IN  /\ c.acceptance_rate.den # 0
             /\ c.graduation_rate.den # 0
             /\ c.students_per_course.den # 0
             /\ rendered.tab.total_courses = 0 =>
                  IsZeroPct(c.students_per_course)
    /\ ( /\ rendered.tab.fn = "display_human_resources"
         /\ Id("CHEDS-HR-21") \in Keys
         /\ Len(TableOf("CHEDS-HR-21").rows) = 0 ) =>
         /\ rendered.tab.raised = "none"
         /\ rendered.tab.workforce.shown
         /\ IsZeroPct(rendered.tab.workforce.male_share)
         /\ IsZeroPct(rendered.tab.workforce.female_share)
         /\ IsZeroPct(rendered.tab.workforce.uae_share)
         /\ IsZeroPct(rendered.tab.workforce.expat_share)

\* C17: when a column an aggregation or chart of a domain view refers to is
\* absent from the product's table, the chart is left out and no error is
\* raised: no domain view fails because of a missing column.
C17_MissingColumnOmitsChart ==
    /\ rendered.tab.raised # "KeyError"
    /\ ( /\ rendered.tab.fn = "display_learning_teaching"
         /\ Id("CHEDS-LT-01") \in Keys
         /\ ~HasColumn(TableOf("CHEDS-LT-01"), "App_Applicants") ) =>
         /\ rendered.tab.raised = "none"
         /\ rendered.tab.applicants = NoApplicantsAnalysis

\* C18: in every sum over a value column a cell that is no number counts as
\* absent and raises nothing; in particular the applicant total of
\* CHEDS-LT-01 is the sum of the cells of App_Applicants that are numbers,
\* and so is every applicant sum per gender.
C18_UnparseableCellsExcluded ==
    /\ rendered.tab.raised \notin {"ValueError", "TypeError"}
    /\ ( /\ rendered.tab.fn = "display_learning_teaching"
         /\ Id("CHEDS-LT-01") \in Keys
         /\ HasColumn(TableOf("CHEDS-LT-01"), "App_Applicants") ) =>
         LET df == TableOf("CHEDS-LT-01")
             cells == Column(df, "App_Applicants")
             numbers == {i \in 1..Len(cells) : IsNumeral(cells[i])}
             value(i) == NumeralValue(cells[i])
         IN  /\ rendered.tab.raised = "none"
             /\ rendered.tab.total_applicants = Sigma(value, numbers)
             /\ HasColumn(df, "App_Gender") =>
                  /\ rendered.tab.applicants.gender_data.shown
                  /\ \A pair \in rendered.tab.applicants.gender_data.data :
                       pair[2] = Sigma(value,
                                       {i \in numbers :
                                          Column(df, "App_Gender")[i] =
                                             pair[1]})

\* The rows of a table, and the number in cell (i, col) after coercion, 0
\* when the cell holds none.
RowIndices(df) == 1..Len(df.rows)

NumberAt(df, col, i) ==
    IF IsNumeral(Column(df, col)[i]) THEN NumeralValue(Column(df, col)[i])
    ELSE 0

\* Every row of the table holds the same, present value in the column.
SingleGroup(df, col) ==
    /\ Len(df.rows) > 0
    /\ ~IsMissing(Column(df, col)[1])
    /\ \A i \in RowIndices(df) : Column(df, col)[i] = Column(df, col)[1]

\* C19: a grouped sum over a table whose group column holds a single value
\* is exactly one (group, sum) pair, and the sum is the sum of the value
\* column after numeric coercion, cells that are no numbers left out.  The
\* grouped sums are the CAPEX by institution, the revenue by institution
\* and the citations by institution.
C19_SingleGroupSum ==
    /\ ( /\ rendered.tab.fn = "display_financial"
         /\ rendered.tab.raised = "none"
         /\ rendered.tab.shown
         /\ rendered.tab.overview
         /\ HasColumn(TableOf("CHEDS-FIN-25"), "Finance_Institution_Name")
         /\ SingleGroup(TableOf("CHEDS-FIN-25"),
                        "Finance_Institution_Name") ) =>
         LET df == TableOf("CHEDS-FIN-25")
             group == Column(df, "Finance_Institution_Name")[1]
             capex(i) ==
                 LET cell(c) == NumberAt(df, c, i)
                 IN  Sigma(cell, Range(CapexCategoryColumns))
             revenue(i) == NumberAt(df, "Finance_Total_Revenue", i)
         IN  /\ rendered.tab.inst_capex =
                  Shown(<< <<group, Sigma(capex, RowIndices(df))>> >>)
             /\ HasColumn(df, "Finance_Total_Revenue") =>
                  rendered.tab.inst_revenue =
                      Shown(<< <<group, Sigma(revenue, RowIndices(df))>> >>)
    /\ ( /\ rendered.tab.fn = "display_research"
         /\ rendered.tab.raised = "none"
         /\ rendered.tab.shown
         /\ rendered.tab.publications
         /\ HasColumn(TableOf("CHEDS-RES-27"), "Pub_Total_Citations")
         /\ SingleGroup(TableOf("CHEDS-RES-27"), "Pub_Institution") ) =>
         LET df == TableOf("CHEDS-RES-27")
             group == Column(df, "Pub_Institution")[1]
             cited(i) == NumberAt(df, "Pub_Total_Citations", i)
         IN  rendered.tab.top_cited =
                 Shown(<< <<group, Sigma(cited, RowIndices(df))>> >>)

\* C19 witness: the CAPEX and the revenue by institution are shown for a
\* table of two rows of one institution in which one summed cell is a number
\* and another is not.
C19_Witness ==
    /\ rendered.tab.fn = "display_financial"
    /\ rendered.tab.raised = "none"
    /\ rendered.tab.shown
    /\ rendered.tab.overview
    /\ SingleGroup(TableOf("CHEDS-FIN-25"), "Finance_Institution_Name")
    /\ Len(TableOf("CHEDS-FIN-25").rows) = 2
    /\ rendered.tab.inst_capex.shown
    /\ rendered.tab.inst_revenue = Shown(<< <<"U1", 5>> >>)
    /\ Column(TableOf("CHEDS-FIN-25"), "Finance_Total_Revenue") = <<"5", "x">>
    /\ Column(TableOf("CHEDS-FIN-25"), "Finance_Capex_Academic") = <<"x", "2">>

\* The column the enrollment analysis counts for the gender chart and for
\* the nationality chart.
GenderColumn(df) ==
    IF HasColumn(df, "Enroll_Gender") THEN "Enroll_Gender" ELSE "Stu_Gender"

NationalityColumn(df) ==
    IF HasColumn(df, "Enroll_Nationality") THEN "Enroll_Nationality"
    ELSE "Stu_Nationality"

\* The present values of a column, how often a value occurs in it and where
\* it occurs first.
ValuesOf(cells) == {c \in Range(cells) : ~IsMissing(c)}

Occurrences(cells, v) == Cardinality({i \in 1..Len(cells) : cells[i] = v})

FirstAt(cells, v) == CHOOSE i \in 1..Len(cells) :
                        cells[i] = v /\ \A j \in 1..(i - 1) : cells[j] # v

\* q lists n of the values of the column, or all of them when there are
\* fewer, each once and with its number of occurrences, and no value it
\* leaves out comes before(u, v) a value u it lists.
IsTopCounts(q, cells, n, before(_, _)) ==
    /\ Len(q) = IF Cardinality(ValuesOf(cells)) < n
                THEN Cardinality(ValuesOf(cells)) ELSE n
    /\ \A i \in 1..Len(q) :
         /\ q[i][1] \in ValuesOf(cells)
         /\ q[i][2] = Occurrences(cells, q[i][1])
    /\ \A i, j \in 1..Len(q) : i < j =>
         q[i][1] # q[j][1] /\ ~before(q[j][1], q[i][1])
    /\ \A v \in ValuesOf(cells) \ {q[i][1] : i \in 1..Len(q)} :
         \A i \in 1..Len(q) : ~before(v, q[i][1])

\* The example column of the value counts.
ExampleColumn == <<"A", "B", "A", "C", "B", "A">>

\* The counts shown by the enrollment analysis are the top counts of their
\* columns under the given order, and those of the example column are
\* (A,3),(B,2),(C,1).
EnrollmentCountsAre(before(_, _, _)) ==
    ( /\ rendered.tab.fn = "display_learning_teaching"
      /\ rendered.tab.raised = "none"
      /\ rendered.tab.shown
      /\ Id("CHEDS-LT-03") \in Keys ) =>
      LET df == TableOf("CHEDS-LT-03")
          genders == Column(df, GenderColumn(df))
          nats == Column(df, NationalityColumn(df))
          g(u, v) == before(genders, u, v)
          n(u, v) == before(nats, u, v)
      IN  /\ HasColumn(df, GenderColumn(df)) =>
               /\ rendered.tab.enrollment.gender_counts.shown
               /\ IsTopCounts(rendered.tab.enrollment.gender_counts.data,
                              genders, Len(genders), g)
               /\ genders = ExampleColumn =>
                    rendered.tab.enrollment.gender_counts.data =
                        << <<"A", 3>>, <<"B", 2>>, <<"C", 1>> >>
          /\ HasColumn(df, NationalityColumn(df)) =>
               /\ rendered.tab.enrollment.nat_counts.shown
               /\ IsTopCounts(rendered.tab.enrollment.nat_counts.data,
                              nats, 10, n)

\* u comes before v when it occurs more often, or as often and earlier.
FirstEncounteredOrder(cells, u, v) ==
    \/ Occurrences(cells, u) > Occurrences(cells, v)
    \/ /\ Occurrences(cells, u) = Occurrences(cells, v)
       /\ FirstAt(cells, u) < FirstAt(cells, v)

\* u comes before v when it occurs more often.
CountOrder(cells, u, v) == Occurrences(cells, u) > Occurrences(cells, v)

\* C20 as stated: value_counts of a column returns (value, count) pairs in
\* descending count order with ties in first-encountered order, truncated to
\* the first N when a top-N is requested; for the values A,B,A,C,B,A the
\* result is (A,3),(B,2),(C,1).
C20_ValueCountsTiesFirstEncountered ==
    EnrollmentCountsAre(FirstEncounteredOrder)

\* C20 amended: value_counts of a column returns (value, count) pairs in
\* descending count order, values of equal count in an order that is not
\* determined, truncated to the first N when a top-N is requested, so that no
\* value left out occurs more often than a value kept; for the values
\* A,B,A,C,B,A the result is (A,3),(B,2),(C,1).
C20_ValueCountsDescending == EnrollmentCountsAre(CountOrder)

\* C20 witness: the nationality chart shows ten of eleven nationalities, the
\* last of them one that occurs as often as the one left out and later in
\* the column.
C20_Witness ==
    /\ rendered.tab.fn = "display_learning_teaching"
    /\ rendered.tab.raised = "none"
    /\ rendered.tab.shown
    /\ Id("CHEDS-LT-03") \in Keys
    /\ rendered.tab.enrollment.nat_counts.shown
    /\ Cardinality(ValuesOf(Column(TableOf("CHEDS-LT-03"),
                                   NationalityColumn(
                                       TableOf("CHEDS-LT-03"))))) = 11
    /\ Len(rendered.tab.enrollment.nat_counts.data) = 10
    /\ rendered.tab.enrollment.nat_counts.data[10] = <<"N11", 1>>

\* The rows of a table whose cell in the column is a number.
Parseable(df, col) == {i \in RowIndices(df) : IsNumeral(Column(df, col)[i])}

\* The fraction is the mean of the parseable cells of the column over the
\* given rows: their sum over their number, nan when there is none.
IsMeanOfParseable(f, df, col, rows) ==
    LET cell(i) == NumberAt(df, col, i)
        among == Parseable(df, col) \cap rows
    IN  /\ f.den = 0 <=> among = {}
        /\ f.num * Cardinality(among) = Sigma(cell, among) * f.den

\* C21: every mean over a numerically coerced column is the sum of the
\* parseable cells divided by the number of parseable cells, not by the
\* number of rows: the workload means of CHEDS-HR-22, the class size mean of
\* CHEDS-FAC-33 and its class size means by institution.
C21_MeanOverParseableCells ==
    /\ ( /\ rendered.tab.fn = "display_human_resources"
         /\ rendered.tab.raised = "none"
         /\ rendered.tab.shown
         /\ rendered.tab.workload.shown ) =>
         LET df == TableOf("CHEDS-HR-22")
             ok(m, col) ==
                 IF HasColumn(df, col)
                 THEN m.shown /\ IsMeanOfParseable(m.data, df, col,
                                                   RowIndices(df))
                 ELSE m = Omitted
         IN  /\ ok(rendered.tab.workload.avg_teaching,
                   "Load_Teaching_Workload")
             /\ ok(rendered.tab.workload.avg_research,
                   "Load_Research_Workload")
             /\ ok(rendered.tab.workload.avg_max, "Load_Maximum_Workload")
    /\ ( /\ rendered.tab.fn = "display_facilities"
         /\ rendered.tab.raised = "none"
         /\ rendered.tab.shown
         /\ rendered.tab.operations
         /\ HasColumn(TableOf("CHEDS-FAC-33"),
                      "Operations_Average_Class_Size") ) =>
         LET df == TableOf("CHEDS-FAC-33")
             col == "Operations_Average_Class_Size"
             inst == Column(df, "Operations_Institution_Name")
         IN  /\ rendered.tab.avg_class_size.shown
             /\ IsMeanOfParseable(rendered.tab.avg_class_size.data, df, col,
                                  RowIndices(df))
             /\ rendered.tab.inst_class.shown
             /\ \A n \in 1..Len(rendered.tab.inst_class.data) :
                  LET pair == rendered.tab.inst_class.data[n]
                  IN  IsMeanOfParseable(pair[2], df, col,
                          {i \in RowIndices(df) : inst[i] = pair[1]})

\* C21 witness: the teaching workload mean is shown for a table of two rows
\* of which one holds a number and the other text: the mean is that number.
C21_Witness ==
    /\ rendered.tab.fn = "display_human_resources"
    /\ rendered.tab.raised = "none"
    /\ rendered.tab.shown
    /\ rendered.tab.workload.shown
    /\ HasColumn(TableOf("CHEDS-HR-22"), "Load_Teaching_Workload")
    /\ Column(TableOf("CHEDS-HR-22"), "Load_Teaching_Workload") = <<"4", "x">>
    /\ rendered.tab.workload.avg_teaching = Shown(Frac(4, 1))

\* The values and column names of a frame, its dtypes left aside.
Cells(frame) == [columns |-> frame.columns, rows |-> frame.rows]

\* C22: exporting the explorer's filtered view (the rows that pass the
\* filters, restricted to the selected columns) and parsing the exported CSV
\* again with the loader's read_csv yields the same rows in the same order,
\* the same columns in the same order and the same cell values.
C22_ExportRoundTrip ==
    ( /\ rendered.tab.fn = "display_data_explorer"
      /\ rendered.tab.raised = "none"
      /\ rendered.tab.shown ) =>
      /\ read_csv(rendered.tab.csv_data) # ParseError
      /\ Cells(Frame(read_csv(rendered.tab.csv_data))) =
             Cells(rendered.tab.display_df)

\* The sum over all domains of the overview's 'Records'.
DomainRecords(d) == rendered.overview.domain_data[d].Records

DomainRecordSum == Sigma(DomainRecords, DOMAIN PRODUCT_CATEGORIES)

\* The session without the Registry entries no domain lists.
CataloguedSession ==
    Session([k \in Keys \cap Catalogued |-> datasets[k]], data_loaded)

\* The uncatalogued entries are stored but reach no domain summary and no
\* domain view: the domain rows count catalogued keys only, and every domain
\* view shows what it shows without those entries.
UncataloguedInNoDomain ==
    /\ rendered.overview.shown =>
         /\ rendered.overview.total_products = Cardinality(Keys)
         /\ \A d \in DOMAIN PRODUCT_CATEGORIES :
              rendered.overview.domain_data[d].Records =
                  Sigma(CachedRows, Range(PRODUCT_CATEGORIES[d]) \cap Keys)
    /\ display_learning_teaching(Session(datasets, data_loaded),
                                 PRODUCT_CATEGORIES) =
           display_learning_teaching(CataloguedSession, PRODUCT_CATEGORIES)
    /\ display_human_resources(Session(datasets, data_loaded),
                               PRODUCT_CATEGORIES) =
           display_human_resources(CataloguedSession, PRODUCT_CATEGORIES)
    /\ display_financial(Session(datasets, data_loaded),
                         PRODUCT_CATEGORIES) =
           display_financial(CataloguedSession, PRODUCT_CATEGORIES)
    /\ display_research(Session(datasets, data_loaded), PRODUCT_CATEGORIES) =
           display_research(CataloguedSession, PRODUCT_CATEGORIES)
    /\ display_facilities(Session(datasets, data_loaded),
                          PRODUCT_CATEGORIES) =
           display_facilities(CataloguedSession, PRODUCT_CATEGORIES)

\* C23 as stated: an uncatalogued Registry entry is stored and counted in the
\* overview totals but contributes to no domain summary and no domain view;
\* the sum over all domains of the records is at most the overview's total
\* records, with equality exactly when every Registry key is catalogued.
C23_DomainSumEqualIffAllCatalogued ==
    /\ UncataloguedInNoDomain
    /\ rendered.overview.shown =>
         /\ DomainRecordSum <= rendered.overview.total_rows
         /\ DomainRecordSum = rendered.overview.total_rows
              <=> Keys \subseteq Catalogued

\* C23 amended: as above, but the sum over all domains equals the overview's
\* total records exactly when every uncatalogued Registry entry has no rows,
\* in particular when every key is catalogued; an uncatalogued entry without
\* rows leaves the two equal.
C23_DomainSumEqualIffNoUncataloguedRows ==
    /\ UncataloguedInNoDomain
    /\ rendered.overview.shown =>
         /\ DomainRecordSum <= rendered.overview.total_rows
         /\ Keys \subseteq Catalogued =>
              DomainRecordSum = rendered.overview.total_rows
         /\ DomainRecordSum = rendered.overview.total_rows
              <=> \A k \in Keys \ Catalogued : datasets[k].rows = 0

\* C23 witness: the overview is shown over a catalogued entry with rows and
\* an uncatalogued entry with rows, and the domain sum is below the total.
C23_Witness ==
    /\ rendered.overview.shown
    /\ \E k \in Keys \cap Catalogued : datasets[k].rows > 0
    /\ \E k \in Keys \ Catalogued : datasets[k].rows > 0
    /\ DomainRecordSum < rendered.overview.total_rows

\* C24: rendering a view (the overview, the data explorer with any filters
\* and column selection, a domain tab) leaves the Registry unchanged: its
\* keys, every entry's filename and cached counts and every entry's table;
\* only the startup auto-load, Reload and Upload change it.
C24_ViewsLeaveRegistry ==
    [][ ( \/ last'.op = "display"
          \/ /\ last'.op \in {"interact", "rerun"}
             /\ last'.reload = "none"
             /\ last'.upload = "none" )
        => /\ datasets' = datasets
           /\ data_loaded' = data_loaded ]_vars

\* C24 witness: the financial view has shown the CAPEX by institution, for
\* which it adds a column to a copy of the Registry's table, and the
\* Registry's table has the columns it was loaded with.
C24_Witness ==
    /\ rendered.tab.fn = "display_financial"
    /\ rendered.tab.raised = "none"
    /\ rendered.tab.shown
    /\ rendered.tab.overview
    /\ rendered.tab.inst_capex.shown
    /\ Len(TableOf("CHEDS-FIN-25").rows) > 0
    /\ ~HasColumn(TableOf("CHEDS-FIN-25"), "Total_CAPEX")
    /\ HasColumn(CapexFrame(TableOf("CHEDS-FIN-25")).df_capex, "Total_CAPEX")

\* C25: the loaded flag is monotone and sound: once data_loaded is true it
\* stays true through every Reload, Upload and rerun, and whenever
\* data_loaded is true the Registry has at least one entry.
C25_LoadedMonotoneAndSound ==
    [][ /\ data_loaded => data_loaded'
        /\ data_loaded' => DOMAIN datasets' # {} ]_vars

\* C25 witness: a Reload raised, or an upload raised, in a session that was
\* already loaded, and the flag is still true over a non-empty Registry.
C25_Witness ==
    /\ data_loaded
    /\ DOMAIN datasets # {}
    /\ \/ last.op = "reload" /\ last.reload = "raise"
       \/ last.op = "upload" /\ last.upload = "raise"

\* C26: Reload is all-or-nothing: when auto_load_csv_files raises on a file,
\* or returns False because the directory is missing or has no CSV file,
\* the Registry and the loaded flag are what they were before the Reload.
C26_ReloadAllOrNothing ==
    [][ (last'.op = "reload" /\ last'.reload \in {"raise", "False"})
        => /\ datasets' = datasets
           /\ data_loaded' = data_loaded ]_vars

\* C26 witness: a Reload raised on a directory of which one file parses and
\* one does not, over a loaded Registry.
C26_Witness ==
    /\ last.op = "reload"
    /\ last.reload = "raise"
    /\ data_loaded
    /\ \E f \in CsvFiles(fs) : Parses(f)
    /\ \E f \in CsvFiles(fs) : ~Parses(f)

\* C27: the upload merge is idempotent across reruns: while the upload
\* widget holds the same files, a further script run leaves the Registry as
\* the first application left it; and in the run that follows a successful
\* Reload, every product_id derived from a held upload file that parses maps
\* to the entry built from the last such file, not to the directory's file.
C27_UploadMergeIdempotent ==
    [][ /\ (last'.op = "interact" /\ uploaded_files # << >>)
             => datasets' = datasets
        /\ last'.op = "rerun"
             => \A i \in 1..Len(uploaded_files) :
                  LastParsedOfItsId(uploaded_files, i)
                    => LET id == UploadProductId(uploaded_files[i].name)
                       IN  /\ id \in DOMAIN datasets'
                           /\ datasets'[id]
                                = UploadEntry(
                                      read_csv(uploaded_files[i].content),
                                      uploaded_files[i].name) ]_vars

\* C28: the startup auto-load runs in at most one script run of a session:
\* it runs only while auto_load_attempted is false, sets it whether or not a
\* file loads, and the flag is never reset; it leaves a Registry that is
\* marked loaded as it is; and it changes the Registry only if a file of the
\* directory parsed.
C28_StartupAutoLoadOnce ==
    [][ /\ auto_load_attempted => auto_load_attempted'
        /\ last'.op = "startup"
             => /\ ~auto_load_attempted
                /\ auto_load_attempted'
                /\ datasets' # datasets
                     => \E f \in CsvFiles(fs) : Parses(f)
        /\ (last'.op # "startup" /\ uploaded_files' = << >>
              /\ last'.reload \in {"none", "False", "raise"})
             => datasets' = datasets
        /\ \A order \in Orderings(CsvFiles(fs)) :
             StartupAutoLoad(Session(datasets, TRUE), fs, order)
               = Session(datasets, TRUE) ]_vars

\* C28 witness: the startup run found nothing to load, a file that parses
\* is in the directory now, and a later run has left the Registry empty.
C28_Witness ==
    /\ auto_load_attempted
    /\ last.op = "interact"
    /\ ~data_loaded
    /\ DOMAIN datasets = {}
    /\ \E f \in CsvFiles(fs) : Parses(f)

\* C29: for every loaded dataset, whatever its row count (0 to 19 rows
\* included), the row-limit slider of the data explorer is well-formed: its
\* minimum 5 is at most its default 20, which is at most its maximum
\* min(100, row count); the explorer does not fail on the slider.
C29_SliderWellFormed ==
    /\ \A k \in DOMAIN datasets :
         LET df == datasets[k].data
         IN  5 <= 20 /\ 20 <= Min(100, Len(df.rows))
    /\ rendered.tab.fn = "display_data_explorer"
         => rendered.tab.raised # "StreamlitAPIException"

\* C30: each option of the explorer's file selector, built as
\* 'product_id: filename', maps back through the text before its first ':'
\* to a key of the Registry and to the entry it was built from, so no
\* selection looks up an unknown product_id, also when a product_id holds
\* a ':'.
C30_OptionMapsBackToItsEntry ==
    /\ \A k \in DOMAIN datasets :
         LET selected_file == Option(k, datasets[k].filename)
             product_id == SplitFirst(selected_file, ":")
         IN  /\ product_id \in DOMAIN datasets
             /\ product_id = k
    /\ rendered.tab.fn = "display_data_explorer"
         => rendered.tab.raised # "KeyError"

====
